---- MODULE Spec2Model ----
(***************************************************************************)
(* Ride-dispatch engine: the home-oriented batch planner                   *)
(* (home_oriented_main.py) and the two real-time simulators that wrap it   *)
(* (instant_simple.py, instant.py).                                        *)
(*                                                                         *)
(* Units.  Kilometre quantities are integers counting hundredths of a      *)
(* kilometre (get_distance rounds to two decimals); times are minutes from *)
(* midnight.  A point (lat, lng) is an integer kilometre coordinate on a   *)
(* line, so get_distance is a metric and coordinates compare exactly.      *)
(***************************************************************************)
EXTENDS Integers, Sequences, FiniteSets, TLC

VARIABLES
    mode,                   \* entry point: "batch" (home_oriented_main), "simple"
                            \* (instant_simple), "instant" (instant)
    vehicles_data,          \* input vehicle list (vehicles.json)
    bookings,               \* the booking list handed to the running planner loop
    vehicles,               \* assigner.vehicles: sequence of VehicleState
    assignments,            \* assigner.assignments: vehicle_id -> booking ids
    unassigned_bookings,    \* assigner.unassigned_bookings
    pc,                     \* position of the single execution thread
    caller,                 \* the loop that is running and that completion returns to
    idx,                    \* loop position in ascending_bookings
    assigned_booking_ids,   \* loop-local set of assigned ids
    best_vehicle,           \* index of the vehicle whose route is being completed
    initial_vehicle_state,  \* snapshot taken by complete_vehicle_route
    pending,                \* middle bookings and ending still to commit
    additional_assigned,    \* ids committed by the running complete_vehicle_route
    current_sim_time,       \* simulators: minutes from midnight
    step_count,             \* instant_simple: number of the running step
    scheduled_bookings,     \* simulators: the scheduled booking list
    instant_bookings,       \* simulators: instant bookings with their load_time
    total_bookings,         \* instant_simple: scheduled + admitted instant bookings
    loaded_instant_bookings,\* instant: admitted instant bookings
    locked_booking_ids,     \* instant_simple: ids with pickup inside the lock window
    locked_bookings,        \* instant: ids of assigned bookings inside the window
    previous_locked_assignments,    \* instant_simple: booking id -> vehicle id
    previous_locked_vehicle_states, \* instant_simple: vehicle id -> locked ids
    replay,                 \* instant_simple: locked (vehicle, id) pairs still to replay
    new_bookings_since_last_run     \* instant: admission flag

planner_vars == <<bookings, vehicles, assignments, unassigned_bookings, pc, caller,
                  idx, assigned_booking_ids, best_vehicle, initial_vehicle_state,
                  pending, additional_assigned>>

sim_vars == <<current_sim_time, step_count, scheduled_bookings, instant_bookings,
              total_bookings, loaded_instant_bookings, locked_booking_ids,
              locked_bookings, previous_locked_assignments,
              previous_locked_vehicle_states, replay, new_bookings_since_last_run>>

vars == <<mode, vehicles_data, planner_vars, sim_vars>>

----------------------------------------------------------------------------
(* Bounds of the model *)

MaxBookings == 4
MaxVehicles == 2

----------------------------------------------------------------------------
(* Arithmetic helpers *)

Abs(x) == IF x < 0 THEN -x ELSE x
Max(a, b) == IF a >= b THEN a ELSE b
Inf == 1000000 * 1000

SetMin(S) == CHOOSE x \in S : \A y \in S : x <= y

Reverse(s) == [i \in 1..Len(s) |-> s[Len(s) + 1 - i]]
Last(s) == s[Len(s)]
IdsOf(bs) == {bs[i].booking_id : i \in 1..Len(bs)}
Range(s) == {s[i] : i \in 1..Len(s)}

RECURSIVE Flatten(_)
Flatten(ss) == IF ss = <<>> THEN <<>> ELSE Head(ss) \o Flatten(Tail(ss))

AllAssignedOf(vs) == Flatten([i \in 1..Len(vs) |-> vs[i].assigned_bookings])

----------------------------------------------------------------------------
(* Geo primitives and time helpers (Helper_func.py, H3_utils.py, Config.py) *)

KmUnit == 100
RingsPerKm == 3

get_distance(point1, point2) == KmUnit * Abs(point1 - point2)

latlng_to_h3(point) == RingsPerKm * point

grid_distance(hex1, hex2) == Abs(hex1 - hex2)

get_pickup_time_minutes(pickup_time) == pickup_time[1] * 60 + pickup_time[2]

calculate_travel_time(distance_km) == (distance_km * 60) \div (30 * KmUnit)

\* booking.get("travel_time", default): the field is <<>> when absent
get_travel_time(booking, default) ==
    IF booking.travel_time = <<>> THEN default ELSE booking.travel_time[1]

----------------------------------------------------------------------------
(* Configuration constants *)

start_time == 360
service_time == 30
max_search_radius == 20
pickup_slack == 60
max_acceptable_distance_strict == 500
excellent_distance == 300
max_acceptable_distance_fallback == 1500
min_time_gap_required == 180
max_middle_bookings == 10
min_efficiency_threshold == 55
max_final_distance_from_home == 2000

active_driver_pay == <<16, 20, 22, 26, 32, 40, 50, 60, 70>>
dead_driver_pay == <<10, 15, 18, 22, 28, 32, 40, 50, 60>>

NoBooking == [booking_id |-> 0, vehicle_type |-> 0, pickup |-> 0, drop |-> 0,
              pickup_time |-> <<0, 0>>, distance_km |-> 0, travel_time |-> <<>>]

----------------------------------------------------------------------------
(* Sorting (sort_bookings_by_time): Python's sorted is stable *)

RECURSIVE InsertByTime(_, _)
InsertByTime(sorted, b) ==
    IF sorted = <<>> THEN <<b>>
    ELSE IF get_pickup_time_minutes(Head(sorted).pickup_time)
              <= get_pickup_time_minutes(b.pickup_time)
         THEN <<Head(sorted)>> \o InsertByTime(Tail(sorted), b)
         ELSE <<b>> \o sorted

RECURSIVE SortedByTime(_)
SortedByTime(bs) ==
    IF bs = <<>> THEN <<>>
    ELSE InsertByTime(SortedByTime(SubSeq(bs, 1, Len(bs) - 1)), bs[Len(bs)])

sort_bookings_by_time(bs) ==
    [ascending |-> SortedByTime(bs), descending |-> Reverse(SortedByTime(bs))]

\* next((b for b in bs if b["booking_id"] == id), None)
RECURSIVE FindBooking(_, _)
FindBooking(bs, id) ==
    IF bs = <<>> THEN NoBooking
    ELSE IF Head(bs).booking_id = id THEN Head(bs)
    ELSE FindBooking(Tail(bs), id)

----------------------------------------------------------------------------
(* Route cost kernel (service.py) *)

\* sum of drop_i -> pickup_{i+1} legs, i the (1-based) index of a drop
RECURSIVE LegSum(_, _)
LegSum(route, i) ==
    IF i + 1 > Len(route) THEN 0
    ELSE get_distance(route[i], route[i + 1]) + LegSum(route, i + 2)

calculate_ddm(route, home) ==
    IF Len(route) < 2 THEN 0
    ELSE (IF route[1] # home THEN get_distance(home, route[1]) ELSE 0)
         + LegSum(route, 2)
         + (IF Last(route) # home THEN get_distance(Last(route), home) ELSE 0)

RECURSIVE MatchKm(_, _, _)
MatchKm(bs, pickup, drop) ==
    IF bs = <<>> THEN get_distance(pickup, drop)
    ELSE IF Head(bs).pickup = pickup /\ Head(bs).drop = drop
         THEN Head(bs).distance_km
         ELSE MatchKm(Tail(bs), pickup, drop)

RECURSIVE ActiveFrom(_, _, _)
ActiveFrom(route, bs, i) ==
    IF i + 1 > Len(route) THEN 0
    ELSE MatchKm(bs, route[i], route[i + 1]) + ActiveFrom(route, bs, i + 2)

calculate_active_km(route, bs) ==
    IF Len(route) < 2 THEN 0 ELSE ActiveFrom(route, bs, 1)

----------------------------------------------------------------------------
(* Vehicle state (VehicleState, initialize_vehicles) *)

VehicleState(v) ==
    [vehicle_id |-> v.vehicle_id, home |-> v.home, current |-> v.home,
     vehicle_type |-> v.vehicle_type, route |-> <<>>, assigned_bookings |-> <<>>,
     active_km |-> 0, dead_km |-> 0, available_time |-> 6 * 60,
     h3_hex |-> latlng_to_h3(v.home), total_driver_pay |-> 0, is_routed |-> FALSE]

initialize_vehicles(data) == [i \in 1..Len(data) |-> VehicleState(data[i])]

initial_assignments(data) ==
    [id \in {data[i].vehicle_id : i \in 1..Len(data)} |-> <<>>]

----------------------------------------------------------------------------
(* Feasibility and expanding-ring search *)

is_vehicle_available_for_booking(vehicle, booking) ==
    LET travel_distance == get_distance(vehicle.current, booking.pickup)
        travel_time == calculate_travel_time(travel_distance)
        earliest_arrival_time == vehicle.available_time + travel_time
    IN  earliest_arrival_time
            <= get_pickup_time_minutes(booking.pickup_time) + pickup_slack

\* faulty variant: routed vehicles are accepted as well
SuitableAtRadiusRoutedToo(vs, booking, search_radius) ==
    LET booking_hex == latlng_to_h3(booking.pickup)
        Ok(i) == /\ vs[i].vehicle_type = booking.vehicle_type
                 /\ is_vehicle_available_for_booking(vs[i], booking)
                 /\ grid_distance(vs[i].h3_hex, booking_hex) = search_radius
    IN  SelectSeq([i \in 1..Len(vs) |-> i], Ok)

\* indices (fleet order) of the vehicles accepted at one search radius
SuitableAtRadius(vs, booking, search_radius) ==
    LET booking_hex == latlng_to_h3(booking.pickup)
        Ok(i) == /\ ~vs[i].is_routed
                 /\ vs[i].vehicle_type = booking.vehicle_type
                 /\ is_vehicle_available_for_booking(vs[i], booking)
                 /\ grid_distance(vs[i].h3_hex, booking_hex) = search_radius
    IN  SelectSeq([i \in 1..Len(vs) |-> i], Ok)

\* faulty variant: the vehicles of every ring up to the maximum radius
get_suitable_vehicles_every_ring(vs, booking) ==
    LET booking_hex == latlng_to_h3(booking.pickup)
        Ok(i) == /\ ~vs[i].is_routed
                 /\ vs[i].vehicle_type = booking.vehicle_type
                 /\ is_vehicle_available_for_booking(vs[i], booking)
                 /\ grid_distance(vs[i].h3_hex, booking_hex) <= max_search_radius
    IN  SelectSeq([i \in 1..Len(vs) |-> i], Ok)

get_suitable_vehicles(vs, booking) ==
    LET hits == {r \in 0..max_search_radius :
                    SuitableAtRadius(vs, booking, r) # <<>>}
    IN  IF hits = {} THEN <<>>
        ELSE SuitableAtRadius(vs, booking, SetMin(hits))

\* main1.py: the same search without a routed flag and with 25 rings
max_search_radius_main1 == 25

SuitableAtRadiusMain1(vs, booking, search_radius) ==
    LET booking_hex == latlng_to_h3(booking.pickup)
        Ok(i) == /\ vs[i].vehicle_type = booking.vehicle_type
                 /\ is_vehicle_available_for_booking(vs[i], booking)
                 /\ grid_distance(vs[i].h3_hex, booking_hex) = search_radius
    IN  SelectSeq([i \in 1..Len(vs) |-> i], Ok)

get_suitable_vehicles_main1(vs, booking) ==
    LET hits == {r \in 0..max_search_radius_main1 :
                    SuitableAtRadiusMain1(vs, booking, r) # <<>>}
    IN  IF hits = {} THEN <<>>
        ELSE SuitableAtRadiusMain1(vs, booking, SetMin(hits))

\* the candidate loop of process_bookings_home_oriented: first strict minimum
RouteDifference(vehicle, booking, bs) ==
    LET test_route == vehicle.route \o <<booking.pickup, booking.drop>>
    IN  calculate_ddm(test_route, vehicle.home) - calculate_active_km(test_route, bs)

\* faulty variant: the first candidate, whatever the differences
SelectFirstVehicle(vs, cands, booking, bs, best, best_difference) ==
    IF cands = <<>> THEN best ELSE Head(cands)

RECURSIVE SelectBestVehicle(_, _, _, _, _, _)
SelectBestVehicle(vs, cands, booking, bs, best, best_difference) ==
    IF cands = <<>> THEN best
    ELSE LET difference == RouteDifference(vs[Head(cands)], booking, bs)
         IN  IF difference < best_difference
             THEN SelectBestVehicle(vs, Tail(cands), booking, bs, Head(cands), difference)
             ELSE SelectBestVehicle(vs, Tail(cands), booking, bs, best, best_difference)

----------------------------------------------------------------------------
(* Single-booking commit (assign_booking_to_vehicle) *)

OpenDeadKm(route, home) ==
    IF route = <<>> THEN 0 ELSE get_distance(home, route[1]) + LegSum(route, 2)

assign_booking_to_vehicle(vehicle, booking) ==
    LET travel_to_pickup == get_distance(vehicle.current, booking.pickup)
        active_distance == booking.distance_km
        new_route == vehicle.route \o <<booking.pickup, booking.drop>>
        travel_time == calculate_travel_time(travel_to_pickup)
        active_time == get_travel_time(booking, 0)
        booking_pickup_min == get_pickup_time_minutes(booking.pickup_time)
        earliest_arrival_time == vehicle.available_time + travel_time
        actual_pickup_start_time == Max(earliest_arrival_time, booking_pickup_min)
    IN  [vehicle EXCEPT
            !.route = new_route,
            !.assigned_bookings = Append(@, booking.booking_id),
            !.current = booking.drop,
            !.available_time = actual_pickup_start_time + active_time + service_time,
            !.active_km = @ + active_distance,
            !.dead_km = OpenDeadKm(new_route, vehicle.home),
            !.h3_hex = latlng_to_h3(booking.drop),
            !.total_driver_pay = @ + active_distance * active_driver_pay[vehicle.vehicle_type]
                                   + travel_to_pickup * dead_driver_pay[vehicle.vehicle_type]]

record_assignment(asg, vehicle, booking) ==
    [asg EXCEPT ![vehicle.vehicle_id] = Append(@, booking.booking_id)]

----------------------------------------------------------------------------
(* Ending search (find_ending_booking) *)

ClassCompatibleAnyHigher(vehicle, booking) ==
    vehicle.vehicle_type >= booking.vehicle_type

ClassCompatible(vehicle, booking) ==
    \/ vehicle.vehicle_type = booking.vehicle_type
    \/ vehicle.vehicle_type = booking.vehicle_type + 1

EndingCandidate(vehicle, booking, assigned_ids) ==
    /\ booking.booking_id \notin assigned_ids
    /\ is_vehicle_available_for_booking(vehicle, booking)
    /\ ClassCompatible(vehicle, booking)
    /\ get_pickup_time_minutes(booking.pickup_time) - vehicle.available_time
           >= min_time_gap_required

\* faulty variant: within 5 km the first qualifying booking of the scan wins
StrictPassFirstWins(vehicle, bs, assigned_ids, best, min_distance_to_home) ==
    LET Ok(b) == /\ EndingCandidate(vehicle, b, assigned_ids)
                 /\ get_distance(b.drop, vehicle.home) <= max_acceptable_distance_strict
        hits == SelectSeq(bs, Ok)
    IN  IF hits = <<>> THEN best ELSE hits[1]

\* first pass: 5 km filter, immediate exit on a drop within 3 km of home
RECURSIVE StrictPass(_, _, _, _, _)
StrictPass(vehicle, bs, assigned_ids, best, min_distance_to_home) ==
    IF bs = <<>> THEN best
    ELSE LET booking == Head(bs)
             distance_to_home == get_distance(booking.drop, vehicle.home)
         IN  IF ~EndingCandidate(vehicle, booking, assigned_ids)
             THEN StrictPass(vehicle, Tail(bs), assigned_ids, best, min_distance_to_home)
             ELSE IF distance_to_home <= max_acceptable_distance_strict
                  THEN IF distance_to_home <= excellent_distance
                       THEN booking
                       ELSE IF distance_to_home < min_distance_to_home
                            THEN StrictPass(vehicle, Tail(bs), assigned_ids,
                                            booking, distance_to_home)
                            ELSE StrictPass(vehicle, Tail(bs), assigned_ids,
                                            best, min_distance_to_home)
                  ELSE StrictPass(vehicle, Tail(bs), assigned_ids,
                                  best, min_distance_to_home)

\* second pass: 15 km filter, closest drop wins
RECURSIVE FallbackPass(_, _, _, _, _)
FallbackPass(vehicle, bs, assigned_ids, best, min_distance_to_home) ==
    IF bs = <<>> THEN best
    ELSE LET booking == Head(bs)
             distance_to_home == get_distance(booking.drop, vehicle.home)
         IN  IF /\ EndingCandidate(vehicle, booking, assigned_ids)
                /\ distance_to_home <= max_acceptable_distance_fallback
                /\ distance_to_home < min_distance_to_home
             THEN FallbackPass(vehicle, Tail(bs), assigned_ids, booking, distance_to_home)
             ELSE FallbackPass(vehicle, Tail(bs), assigned_ids, best, min_distance_to_home)

find_ending_booking(vehicle, descending_bookings, assigned_ids) ==
    LET strict == StrictPass(vehicle, descending_bookings, assigned_ids, NoBooking, Inf)
    IN  IF strict # NoBooking THEN strict
        ELSE FallbackPass(vehicle, descending_bookings, assigned_ids, NoBooking, Inf)

----------------------------------------------------------------------------
(* Middle selection (find_middle_bookings) *)

RECURSIVE SumDistanceKm(_, _)
SumDistanceKm(bs, ids) ==
    IF bs = <<>> THEN 0
    ELSE (IF Head(bs).booking_id \in ids THEN Head(bs).distance_km ELSE 0)
         + SumDistanceKm(Tail(bs), ids)

MiddleCandidates(vehicle, ending_booking, available_bookings, assigned_ids) ==
    LET current_time == vehicle.available_time
        ending_pickup_time == get_pickup_time_minutes(ending_booking.pickup_time)
        Fits(b) == /\ b.booking_id \notin assigned_ids
                   /\ b.booking_id # ending_booking.booking_id
                   /\ current_time <= get_pickup_time_minutes(b.pickup_time)
                   /\ get_pickup_time_minutes(b.pickup_time) < ending_pickup_time
                   /\ ClassCompatible(vehicle, b)
    IN  SortedByTime(SelectSeq(available_bookings, Fits))

\* the rolling state after a booking is served from temp_vehicle_state
RollingAfter(temp, booking) ==
    LET travel_distance == get_distance(temp.current, booking.pickup)
        travel_time == calculate_travel_time(travel_distance)
        earliest_arrival == temp.available_time + travel_time
        active_time == get_travel_time(booking, 30)
        actual_pickup_start ==
            Max(earliest_arrival, get_pickup_time_minutes(booking.pickup_time))
    IN  [current |-> booking.drop,
         available_time |-> actual_pickup_start + active_time + service_time,
         route |-> temp.route \o <<booking.pickup, booking.drop>>]

MiddleTimeOk(temp, ending_booking, booking) ==
    LET travel_distance == get_distance(temp.current, booking.pickup)
        earliest_arrival == temp.available_time + calculate_travel_time(travel_distance)
        booking_end_time == RollingAfter(temp, booking).available_time
        time_to_ending ==
            calculate_travel_time(get_distance(booking.drop, ending_booking.pickup))
    IN  /\ earliest_arrival
              <= get_pickup_time_minutes(booking.pickup_time) + pickup_slack
        /\ booking_end_time + time_to_ending
              <= get_pickup_time_minutes(ending_booking.pickup_time) + pickup_slack

MiddleTestDeadKm(vehicle, temp, ending_booking, booking) ==
    calculate_ddm(temp.route \o <<booking.pickup, booking.drop>>
                             \o <<ending_booking.pickup, ending_booking.drop>>,
                  vehicle.home)

MiddleTestActiveKm(temp_assigned_ids, booking, all_bookings) ==
    SumDistanceKm(all_bookings, temp_assigned_ids \cup {booking.booking_id})

\* faulty variant of a round: the comparison of dead and active km is left out
RECURSIVE BestMiddleIndexNoReject(_, _, _, _, _, _, _, _, _)
BestMiddleIndexNoReject(vehicle, temp, ending_booking, temp_assigned_ids, all_bookings, cands, i, best_index, best_difference) ==
    IF i > Len(cands) THEN best_index
    ELSE LET booking == cands[i]
             difference == MiddleTestDeadKm(vehicle, temp, ending_booking, booking)
                           - MiddleTestActiveKm(temp_assigned_ids, booking, all_bookings)
         IN  IF MiddleTimeOk(temp, ending_booking, booking) /\ difference < best_difference
             THEN BestMiddleIndexNoReject(vehicle, temp, ending_booking, temp_assigned_ids,
                                          all_bookings, cands, i + 1, i, difference)
             ELSE BestMiddleIndexNoReject(vehicle, temp, ending_booking, temp_assigned_ids,
                                          all_bookings, cands, i + 1, best_index,
                                          best_difference)

\* one round of the selection loop: index of the winner in cands, 0 when none
RECURSIVE BestMiddleIndex(_, _, _, _, _, _, _, _, _)
BestMiddleIndex(vehicle, temp, ending_booking, temp_assigned_ids, all_bookings, cands, i, best_index, best_difference) ==
    IF i > Len(cands) THEN best_index
    ELSE LET booking == cands[i]
             test_dead_km == MiddleTestDeadKm(vehicle, temp, ending_booking, booking)
             test_active_km == MiddleTestActiveKm(temp_assigned_ids, booking, all_bookings)
             difference == test_dead_km - test_active_km
         IN  IF /\ MiddleTimeOk(temp, ending_booking, booking)
                /\ test_dead_km <= test_active_km
                /\ difference < best_difference
             THEN BestMiddleIndex(vehicle, temp, ending_booking, temp_assigned_ids,
                                  all_bookings, cands, i + 1, i, difference)
             ELSE BestMiddleIndex(vehicle, temp, ending_booking, temp_assigned_ids,
                                  all_bookings, cands, i + 1, best_index, best_difference)

RemoveAt(s, i) == SubSeq(s, 1, i - 1) \o SubSeq(s, i + 1, Len(s))

RECURSIVE MiddleRounds(_, _, _, _, _, _, _)
MiddleRounds(vehicle, ending_booking, temp, temp_assigned_ids, all_bookings, cands, middle_bookings) ==
    IF ~(Len(middle_bookings) < max_middle_bookings /\ cands # <<>>)
    THEN middle_bookings
    ELSE LET best == BestMiddleIndex(vehicle, temp, ending_booking, temp_assigned_ids,
                                     all_bookings, cands, 1, 0, Inf)
         IN  IF best = 0 THEN middle_bookings
             ELSE MiddleRounds(vehicle, ending_booking, RollingAfter(temp, cands[best]),
                               temp_assigned_ids \cup {cands[best].booking_id},
                               all_bookings, RemoveAt(cands, best),
                               Append(middle_bookings, cands[best]))

find_middle_bookings(vehicle, ending_booking, available_bookings, assigned_ids, all_bookings) ==
    MiddleRounds(vehicle, ending_booking,
                 [current |-> vehicle.current,
                  available_time |-> vehicle.available_time,
                  route |-> vehicle.route],
                 Range(vehicle.assigned_bookings) \cup {ending_booking.booking_id},
                 all_bookings,
                 MiddleCandidates(vehicle, ending_booking, available_bookings,
                                  assigned_ids),
                 <<>>)

----------------------------------------------------------------------------
(* Route completion (complete_vehicle_route): snapshot, gate, rollback *)

Snapshot(vehicle) ==
    [route |-> vehicle.route, assigned_bookings |-> vehicle.assigned_bookings,
     active_km |-> vehicle.active_km, dead_km |-> vehicle.dead_km,
     current |-> vehicle.current, available_time |-> vehicle.available_time,
     total_driver_pay |-> vehicle.total_driver_pay, h3_hex |-> vehicle.h3_hex]

NoSnapshot == Snapshot(VehicleState([vehicle_id |-> 0, home |-> 0, vehicle_type |-> 0]))

\* "Update available time to after the fresh booking completion": the booking
\* looked up is the first one of the vehicle's assignment list
ResetToFirstBooking(vehicle, all_bookings) ==
    IF vehicle.assigned_bookings = <<>> THEN vehicle
    ELSE LET fresh_booking == FindBooking(all_bookings, vehicle.assigned_bookings[1])
         IN  IF fresh_booking = NoBooking THEN vehicle
             ELSE [vehicle EXCEPT !.available_time =
                      get_pickup_time_minutes(fresh_booking.pickup_time)
                      + get_travel_time(fresh_booking, 30) + service_time]

\* faulty variants of the rollback, used to show that the properties below
\* depend on what the rollback restores
RestoreSnapshotKeepsBookings(vehicle, snap) ==
    [vehicle EXCEPT !.route = snap.route,
                    !.active_km = snap.active_km,
                    !.dead_km = snap.dead_km,
                    !.current = snap.current,
                    !.available_time = snap.available_time,
                    !.total_driver_pay = snap.total_driver_pay,
                    !.h3_hex = snap.h3_hex]

RestoreSnapshotKeepsActiveKm(vehicle, snap) ==
    [vehicle EXCEPT !.route = snap.route,
                    !.assigned_bookings = snap.assigned_bookings,
                    !.dead_km = snap.dead_km,
                    !.current = snap.current,
                    !.available_time = snap.available_time,
                    !.total_driver_pay = snap.total_driver_pay,
                    !.h3_hex = snap.h3_hex]

RestoreSnapshotKeepsPosition(vehicle, snap) ==
    [vehicle EXCEPT !.route = snap.route,
                    !.assigned_bookings = snap.assigned_bookings,
                    !.active_km = snap.active_km,
                    !.dead_km = snap.dead_km,
                    !.available_time = snap.available_time,
                    !.total_driver_pay = snap.total_driver_pay]

RestoreSnapshot(vehicle, snap) ==
    [vehicle EXCEPT !.route = snap.route,
                    !.assigned_bookings = snap.assigned_bookings,
                    !.active_km = snap.active_km,
                    !.dead_km = snap.dead_km,
                    !.current = snap.current,
                    !.available_time = snap.available_time,
                    !.total_driver_pay = snap.total_driver_pay,
                    !.h3_hex = snap.h3_hex]

RejectRoute(vehicle, snap, all_bookings) ==
    [ResetToFirstBooking(RestoreSnapshot(vehicle, snap), all_bookings)
        EXCEPT !.is_routed = FALSE]

NoEndingFound(vehicle, all_bookings) ==
    [ResetToFirstBooking(vehicle, all_bookings) EXCEPT !.is_routed = FALSE]

FinalHomeLeg(vehicle) == get_distance(vehicle.current, vehicle.home)

\* efficiency = active / (active + dead + final leg) * 100, compared with 55.0
EfficiencyBelowThreshold(vehicle) ==
    LET total_dead_km_with_home == vehicle.dead_km + FinalHomeLeg(vehicle)
        total_km == vehicle.active_km + total_dead_km_with_home
    IN  IF total_km > 0
        THEN vehicle.active_km * 100 < min_efficiency_threshold * total_km
        ELSE TRUE

GateRejects(vehicle) ==
    \/ EfficiencyBelowThreshold(vehicle)
    \/ FinalHomeLeg(vehicle) > max_final_distance_from_home

\* faulty variant: the leg home is added to dead_km but not paid
AddFinalHomeLegUnpaid(vehicle) ==
    [vehicle EXCEPT !.dead_km = @ + FinalHomeLeg(vehicle)]

AddFinalHomeLeg(vehicle) ==
    [vehicle EXCEPT
        !.dead_km = @ + FinalHomeLeg(vehicle),
        !.total_driver_pay = @ + FinalHomeLeg(vehicle) * dead_driver_pay[vehicle.vehicle_type]]

AcceptRoute(vehicle) == [AddFinalHomeLeg(vehicle) EXCEPT !.is_routed = TRUE]

\* process_bookings_home_oriented, after a completion that returned nothing
AfterFailedCompletion(vehicle, booking) ==
    IF ~vehicle.is_routed /\ vehicle.assigned_bookings # <<>> /\ vehicle.route # <<>>
    THEN [vehicle EXCEPT !.available_time =
             get_pickup_time_minutes(booking.pickup_time)
             + get_travel_time(booking, 30) + service_time]
    ELSE vehicle

\* faulty variant: marks the vehicle routed without the last-drop -> home leg
FinalizeVehicleNoHomeLeg(vehicle) ==
    IF vehicle.assigned_bookings # <<>> /\ ~vehicle.is_routed
    THEN [vehicle EXCEPT !.is_routed = TRUE]
    ELSE vehicle

\* end-of-run finalization of one vehicle
FinalizeVehicle(vehicle) ==
    IF vehicle.assigned_bookings # <<>> /\ ~vehicle.is_routed
    THEN [(IF vehicle.route # <<>> THEN AddFinalHomeLeg(vehicle) ELSE vehicle)
            EXCEPT !.is_routed = TRUE]
    ELSE vehicle

----------------------------------------------------------------------------
(* Input catalogues.  A run takes a sub-list of the booking catalogue and a   *)
(* sub-list of the vehicle catalogue, both in catalogue order.                *)

Booking(id, class, pickup, drop, hour, minute, km, travel_time) ==
    [booking_id |-> id, vehicle_type |-> class, pickup |-> pickup, drop |-> drop,
     pickup_time |-> <<hour, minute>>, distance_km |-> km * KmUnit,
     travel_time |-> travel_time]

BookingCatalogue ==
    << Booking(1, 1, 0, 4, 6, 40, 4, <<10>>),
       Booking(2, 1, 4, 6, 6, 40, 2, <<10>>),
       Booking(3, 1, 8, 4, 7, 0, 4, <<10>>),
       Booking(4, 1, 4, 6, 8, 0, 6, <<10>>),
       Booking(5, 1, 4, 4, 8, 20, 8, <<10>>),
       Booking(6, 1, 24, 1, 11, 20, 1, <<>>),
       Booking(7, 1, 4, 1, 12, 0, 4, <<>>),
       Booking(8, 2, 0, 2, 7, 0, 2, <<>>),
       Booking(9, 1, 0, 25, 6, 0, 25, <<50>>),
       Booking(10, 1, 25, 30, 8, 0, 5, <<>>),
       Booking(11, 9, 2, 0, 7, 30, 2, <<>>),
       Booking(12, 1, 3, 5, 8, 30, 2, <<>>),
       Booking(13, 1, 1, 8, 13, 0, 7, <<>>) >>

VehicleCatalogue ==
    << [vehicle_id |-> 1, home |-> 0, vehicle_type |-> 1],
       [vehicle_id |-> 2, home |-> 0, vehicle_type |-> 2],
       [vehicle_id |-> 3, home |-> 2, vehicle_type |-> 1],
       [vehicle_id |-> 4, home |-> 0, vehicle_type |-> 9] >>

\* the sub-list of cat at the positions in S, in catalogue order
SubList(cat, S) == SelectSeq([i \in 1..Len(cat) |-> IF i \in S THEN cat[i] ELSE NoBooking],
                             LAMBDA b : b # NoBooking)

VehicleSubList(S) ==
    LET Pos == SelectSeq([i \in 1..Len(VehicleCatalogue) |-> i], LAMBDA i : i \in S)
    IN  [k \in 1..Len(Pos) |-> VehicleCatalogue[Pos[k]]]

BookingChoices(max) ==
    {S \in SUBSET (1..Len(BookingCatalogue)) : Cardinality(S) <= max}

VehicleChoices ==
    {S \in SUBSET (1..Len(VehicleCatalogue)) : S # {} /\ Cardinality(S) <= MaxVehicles}

----------------------------------------------------------------------------
(* The batch planner: process_bookings_home_oriented as a loop of steps       *)

ascending_bookings == sort_bookings_by_time(bookings).ascending
descending_bookings == sort_bookings_by_time(bookings).descending

FreshBooking == ascending_bookings[idx]

InLoop(name) == pc = "loop" /\ caller = name /\ idx <= Len(ascending_bookings)

available_bookings ==
    SelectSeq(bookings, LAMBDA b : b.booking_id \notin assigned_booking_ids)

NoSimStep == UNCHANGED <<mode, vehicles_data, sim_vars>>

InitSim0 ==
    /\ current_sim_time = 0
    /\ step_count = 0
    /\ scheduled_bookings = <<>>
    /\ instant_bookings = <<>>
    /\ total_bookings = <<>>
    /\ loaded_instant_bookings = <<>>
    /\ locked_booking_ids = {}
    /\ locked_bookings = {}
    /\ previous_locked_assignments = <<>>
    /\ previous_locked_vehicle_states = <<>>
    /\ replay = <<>>
    /\ new_bookings_since_last_run = FALSE

\* a new assigner whose vehicles are initialised and whose planner is entered
StartPlanner(bs, data) ==
    /\ bookings = bs
    /\ vehicles = initialize_vehicles(data)
    /\ assignments = initial_assignments(data)
    /\ unassigned_bookings = <<>>
    /\ pc = "loop"
    /\ caller = "process_bookings_home_oriented"
    /\ idx = 1
    /\ assigned_booking_ids = {}
    /\ best_vehicle = 0
    /\ initial_vehicle_state = NoSnapshot
    /\ pending = <<>>
    /\ additional_assigned = <<>>

Init ==
    /\ mode = "batch"
    /\ \E S \in VehicleChoices : vehicles_data = VehicleSubList(S)
    /\ \E S \in BookingChoices(MaxBookings) :
          StartPlanner(SubList(BookingCatalogue, S), vehicles_data)
    /\ InitSim0

SkipAssigned ==
    /\ InLoop("process_bookings_home_oriented")
    /\ FreshBooking.booking_id \in assigned_booking_ids
    /\ idx' = idx + 1
    /\ UNCHANGED <<bookings, vehicles, assignments, unassigned_bookings, pc, caller,
                   assigned_booking_ids, best_vehicle, initial_vehicle_state,
                   pending, additional_assigned>>
    /\ NoSimStep

\* commit of the fresh booking to vehicle index v, then on to route completion
CommitFresh(v) ==
    /\ vehicles' = [vehicles EXCEPT ![v] = assign_booking_to_vehicle(@, FreshBooking)]
    /\ assignments' = record_assignment(assignments, vehicles[v], FreshBooking)
    /\ assigned_booking_ids' = assigned_booking_ids \cup {FreshBooking.booking_id}
    /\ best_vehicle' = v
    /\ UNCHANGED <<bookings, unassigned_bookings, caller, idx, initial_vehicle_state,
                   pending, additional_assigned>>
    /\ NoSimStep

\* faulty variant: the retry asks for a vehicle two classes up
TwoClassesHigherBooking(booking) == [booking EXCEPT !.vehicle_type = @ + 2]

HigherClassBooking(booking) == [booking EXCEPT !.vehicle_type = @ + 1]

AssignPrimary ==
    /\ InLoop("process_bookings_home_oriented")
    /\ FreshBooking.booking_id \notin assigned_booking_ids
    /\ LET suitable_vehicles == get_suitable_vehicles(vehicles, FreshBooking)
       IN  /\ suitable_vehicles # <<>>
           /\ CommitFresh(SelectBestVehicle(vehicles, suitable_vehicles, FreshBooking,
                                            bookings, 0, Inf))
    /\ pc' = "complete"

AssignUpgrade ==
    /\ InLoop("process_bookings_home_oriented")
    /\ FreshBooking.booking_id \notin assigned_booking_ids
    /\ get_suitable_vehicles(vehicles, FreshBooking) = <<>>
    /\ FreshBooking.vehicle_type < 9
    /\ LET higher_class_vehicles ==
               get_suitable_vehicles(vehicles, HigherClassBooking(FreshBooking))
       IN  /\ higher_class_vehicles # <<>>
           /\ CommitFresh(SelectBestVehicle(vehicles, higher_class_vehicles,
                                            FreshBooking, bookings, 0, Inf))
    /\ pc' = "complete"

NotAssigned ==
    /\ InLoop("process_bookings_home_oriented")
    /\ FreshBooking.booking_id \notin assigned_booking_ids
    /\ get_suitable_vehicles(vehicles, FreshBooking) = <<>>
    /\ FreshBooking.vehicle_type < 9
          => get_suitable_vehicles(vehicles, HigherClassBooking(FreshBooking)) = <<>>
    /\ idx' = idx + 1
    /\ UNCHANGED <<bookings, vehicles, assignments, unassigned_bookings, pc, caller,
                   assigned_booking_ids, best_vehicle, initial_vehicle_state,
                   pending, additional_assigned>>
    /\ NoSimStep

\* what the calling loop does with a vehicle whose completion returned nothing
AfterEmptyCompletion(vehicle) ==
    IF caller = "process_bookings_home_oriented"
    THEN AfterFailedCompletion(vehicle, FreshBooking)
    ELSE vehicle

CompleteNoEnding ==
    /\ pc = "complete"
    /\ find_ending_booking(vehicles[best_vehicle], descending_bookings,
                           assigned_booking_ids) = NoBooking
    /\ vehicles' = [vehicles EXCEPT ![best_vehicle] =
                        AfterEmptyCompletion(NoEndingFound(@, bookings))]
    /\ pc' = "loop"
    /\ idx' = idx + 1
    /\ UNCHANGED <<bookings, assignments, unassigned_bookings, caller,
                   assigned_booking_ids, best_vehicle, initial_vehicle_state,
                   pending, additional_assigned>>
    /\ NoSimStep

CompleteSelect ==
    /\ pc = "complete"
    /\ LET vehicle == vehicles[best_vehicle]
           ending_booking == find_ending_booking(vehicle, descending_bookings,
                                                 assigned_booking_ids)
           middle_bookings == find_middle_bookings(vehicle, ending_booking,
                                                   available_bookings,
                                                   assigned_booking_ids, bookings)
       IN  /\ ending_booking # NoBooking
           /\ initial_vehicle_state' = Snapshot(vehicle)
           /\ pending' = Append(middle_bookings, ending_booking)
    /\ additional_assigned' = <<>>
    /\ pc' = "commit"
    /\ UNCHANGED <<bookings, vehicles, assignments, unassigned_bookings, caller, idx,
                   assigned_booking_ids, best_vehicle>>
    /\ NoSimStep

CommitPending ==
    /\ pc = "commit"
    /\ pending # <<>>
    /\ vehicles' = [vehicles EXCEPT ![best_vehicle] =
                        assign_booking_to_vehicle(@, Head(pending))]
    /\ assignments' = record_assignment(assignments, vehicles[best_vehicle], Head(pending))
    /\ additional_assigned' = Append(additional_assigned, Head(pending).booking_id)
    /\ pending' = Tail(pending)
    /\ pc' = IF Tail(pending) = <<>> THEN "gate" ELSE "commit"
    /\ UNCHANGED <<bookings, unassigned_bookings, caller, idx, assigned_booking_ids,
                   best_vehicle, initial_vehicle_state>>
    /\ NoSimStep

GateReject ==
    /\ pc = "gate"
    /\ GateRejects(vehicles[best_vehicle])
    /\ vehicles' = [vehicles EXCEPT ![best_vehicle] =
                        AfterEmptyCompletion(RejectRoute(@, initial_vehicle_state, bookings))]
    /\ pc' = "loop"
    /\ idx' = idx + 1
    /\ UNCHANGED <<bookings, assignments, unassigned_bookings, caller,
                   assigned_booking_ids, best_vehicle, initial_vehicle_state,
                   pending, additional_assigned>>
    /\ NoSimStep

GateAccept ==
    /\ pc = "gate"
    /\ ~GateRejects(vehicles[best_vehicle])
    /\ vehicles' = [vehicles EXCEPT ![best_vehicle] = AcceptRoute(@)]
    /\ assigned_booking_ids' = assigned_booking_ids \cup Range(additional_assigned)
    /\ pc' = "loop"
    /\ idx' = idx + 1
    /\ UNCHANGED <<bookings, assignments, unassigned_bookings, caller, best_vehicle,
                   initial_vehicle_state, pending, additional_assigned>>
    /\ NoSimStep

Finalize ==
    /\ pc = "loop"
    /\ caller = "process_bookings_home_oriented"
    /\ idx > Len(ascending_bookings)
    /\ vehicles' = [i \in 1..Len(vehicles) |-> FinalizeVehicle(vehicles[i])]
    /\ unassigned_bookings' = available_bookings
    /\ pc' = "done"
    /\ UNCHANGED <<bookings, assignments, caller, idx, assigned_booking_ids,
                   best_vehicle, initial_vehicle_state, pending, additional_assigned>>
    /\ NoSimStep

Next ==
    \/ SkipAssigned
    \/ AssignPrimary
    \/ AssignUpgrade
    \/ NotAssigned
    \/ CompleteNoEnding
    \/ CompleteSelect
    \/ CommitPending
    \/ GateReject
    \/ GateAccept
    \/ Finalize

Spec == Init /\ [][Next]_vars

----------------------------------------------------------------------------
(* Simulator inputs and shared pieces (instant_simple.py, instant.py)         *)

end_time_simple == 20 * 60
stop_time_simple == 19 * 60
end_time_instant == 11 * 60
step_interval == 30
lock_window == 120

MaxScheduled == 4
MaxInstant == 1

ScheduledPositions == {1, 2, 3, 4, 5, 7}
InstantPositions == {6, 8, 9, 10}
SimVehiclePositions == {1, 2, 3}

\* faulty variant: the window of the draw ends 30 minutes before the pickup
LoadTimesLate(booking) ==
    LET pickup_time == get_pickup_time_minutes(booking.pickup_time)
        earliest_load == Max(start_time, pickup_time - 120)
        latest_load == pickup_time - 30
    IN  IF latest_load > earliest_load
        THEN {t \in earliest_load..latest_load : t % step_interval = 0}
        ELSE {earliest_load}

\* load_time = random.randint(earliest_load, latest_load); admission only
\* compares it with tick times, so the tick-aligned values represent the range
LoadTimes(booking) ==
    LET pickup_time == get_pickup_time_minutes(booking.pickup_time)
        earliest_load == Max(start_time, pickup_time - 120)
        latest_load == pickup_time - 60
    IN  IF latest_load > earliest_load
        THEN {t \in earliest_load..latest_load : t % step_interval = 0}
        ELSE {earliest_load}

RECURSIVE InstantLists(_)
InstantLists(bs) ==
    IF bs = <<>> THEN {<<>>}
    ELSE {<<[booking_data |-> Head(bs), load_time |-> t]>> \o rest :
             t \in LoadTimes(Head(bs)), rest \in InstantLists(Tail(bs))}

ScheduledChoices ==
    {S \in SUBSET ScheduledPositions : Cardinality(S) <= MaxScheduled}

InstantChoices ==
    {S \in SUBSET InstantPositions : Cardinality(S) <= MaxInstant}

SimVehicleChoices == {S \in VehicleChoices : S \subseteq SimVehiclePositions}

InSeq(x, s) == \E k \in 1..Len(s) : s[k] = x

\* faulty variant: the membership test is dropped, a due booking is admitted
\* again at every tick
DueInstantAgain(now, known) ==
    LET due == SelectSeq(instant_bookings, LAMBDA ib : ib.load_time <= now)
    IN  [k \in 1..Len(due) |-> due[k].booking_data]

\* the booking_data of the instant bookings whose load_time has come and that
\* are not yet in the list `known`
DueInstant(now, known) ==
    LET due == SelectSeq(instant_bookings,
                         LAMBDA ib : ib.load_time <= now /\ ~InSeq(ib.booking_data, known))
    IN  [k \in 1..Len(due) |-> due[k].booking_data]

NoPlannerStep == UNCHANGED planner_vars

----------------------------------------------------------------------------
(* instant_simple.py: every step builds a new assigner, replays the stored    *)
(* locked assignments and plans the remaining bookings                        *)

InitSimple ==
    /\ mode = "simple"
    /\ \E S \in SimVehicleChoices : vehicles_data = VehicleSubList(S)
    /\ \E S \in ScheduledChoices : scheduled_bookings = SubList(BookingCatalogue, S)
    /\ \E S \in InstantChoices :
          instant_bookings \in InstantLists(SubList(BookingCatalogue, S))
    /\ total_bookings = scheduled_bookings
    /\ current_sim_time = start_time
    /\ step_count = 0
    /\ StartPlanner(total_bookings, vehicles_data)
    /\ loaded_instant_bookings = <<>>
    /\ locked_booking_ids = {}
    /\ locked_bookings = {}
    /\ previous_locked_assignments = <<>>
    /\ previous_locked_vehicle_states = <<>>
    /\ replay = <<>>
    /\ new_bookings_since_last_run = FALSE

update_locked_bookings(bs, now) ==
    {bs[k].booking_id : k \in {j \in 1..Len(bs) :
        get_pickup_time_minutes(bs[j].pickup_time) <= now + lock_window}}

\* store_locked_assignments: booking id -> vehicle id (a later vehicle
\* overwrites an earlier one), and per vehicle its locked ids in list order
StoredAssignments(vs, locked) ==
    LET Holder(b) == {i \in 1..Len(vs) : InSeq(b, vs[i].assigned_bookings)}
        ids == {b \in locked : Holder(b) # {}}
    IN  [b \in ids |-> vs[CHOOSE i \in Holder(b) : \A j \in Holder(b) : j <= i].vehicle_id]

StoredVehicleStates(vs, locked) ==
    LET with == {i \in 1..Len(vs) : vs[i].assigned_bookings # <<>>}
        At(id) == CHOOSE i \in with : vs[i].vehicle_id = id
    IN  [id \in {vs[i].vehicle_id : i \in with} |->
            SelectSeq(vs[At(id)].assigned_bookings, LAMBDA b : b \in locked)]

StoreLocked ==
    /\ mode = "simple"
    /\ pc = "done"
    /\ locked_booking_ids' = update_locked_bookings(total_bookings, current_sim_time)
    /\ previous_locked_assignments' = StoredAssignments(vehicles, locked_booking_ids')
    /\ previous_locked_vehicle_states' = StoredVehicleStates(vehicles, locked_booking_ids')
    /\ pc' = "summary"
    /\ UNCHANGED <<mode, vehicles_data, bookings, vehicles, assignments,
                   unassigned_bookings, caller, idx, assigned_booking_ids,
                   best_vehicle, initial_vehicle_state, pending, additional_assigned,
                   current_sim_time, step_count, scheduled_bookings, instant_bookings,
                   total_bookings, loaded_instant_bookings, locked_bookings, replay,
                   new_bookings_since_last_run>>

\* one pass of the main loop up to the call of run_home_oriented_assignment
AdvanceStep ==
    /\ mode = "simple"
    /\ pc = "summary"
    /\ current_sim_time < stop_time_simple
    /\ current_sim_time < end_time_simple
    /\ current_sim_time + step_interval < stop_time_simple
    /\ current_sim_time' = current_sim_time + step_interval
    /\ step_count' = step_count + 1
    /\ total_bookings' = total_bookings
           \o DueInstant(current_sim_time', total_bookings)
    /\ pc' = "assign"
    /\ UNCHANGED <<mode, vehicles_data, bookings, vehicles, assignments,
                   unassigned_bookings, caller, idx, assigned_booking_ids,
                   best_vehicle, initial_vehicle_state, pending, additional_assigned,
                   scheduled_bookings, instant_bookings, loaded_instant_bookings,
                   locked_booking_ids, locked_bookings, previous_locked_assignments,
                   previous_locked_vehicle_states, replay, new_bookings_since_last_run>>

\* the pass that reaches 19:00 breaks out; the final assignment run follows
BreakLoop ==
    /\ mode = "simple"
    /\ pc = "summary"
    /\ current_sim_time < stop_time_simple
    /\ current_sim_time < end_time_simple
    /\ current_sim_time + step_interval >= stop_time_simple
    /\ current_sim_time' = current_sim_time + step_interval
    /\ step_count' = step_count + 1
    /\ pc' = "assign"
    /\ UNCHANGED <<mode, vehicles_data, bookings, vehicles, assignments,
                   unassigned_bookings, caller, idx, assigned_booking_ids,
                   best_vehicle, initial_vehicle_state, pending, additional_assigned,
                   scheduled_bookings, instant_bookings, total_bookings,
                   loaded_instant_bookings, locked_booking_ids, locked_bookings,
                   previous_locked_assignments, previous_locked_vehicle_states,
                   replay, new_bookings_since_last_run>>

\* faulty variant: only the first locked booking of each vehicle is replayed
ReplayQueueFirstOnly(vs, states) ==
    Flatten([i \in 1..Len(vs) |->
        IF vs[i].vehicle_id \in DOMAIN states /\ states[vs[i].vehicle_id] # <<>>
        THEN << <<i, states[vs[i].vehicle_id][1]>> >>
        ELSE <<>>])

\* apply_previous_locked_assignments: the (vehicle, booking id) pairs in the
\* order in which they are handed to assign_booking_to_vehicle
ReplayQueue(vs, states) ==
    Flatten([i \in 1..Len(vs) |->
        IF vs[i].vehicle_id \in DOMAIN states
        THEN [k \in 1..Len(states[vs[i].vehicle_id]) |->
                 <<i, states[vs[i].vehicle_id][k]>>]
        ELSE <<>>])

\* run_home_oriented_assignment at step_count > 0: new assigner, then replay
StartAssignment ==
    /\ mode = "simple"
    /\ pc = "assign"
    /\ vehicles' = initialize_vehicles(vehicles_data)
    /\ assignments' = initial_assignments(vehicles_data)
    /\ unassigned_bookings' = <<>>
    /\ replay' = ReplayQueue(vehicles', previous_locked_vehicle_states)
    /\ pc' = "replay"
    /\ UNCHANGED <<mode, vehicles_data, bookings, caller, idx, assigned_booking_ids,
                   best_vehicle, initial_vehicle_state, pending, additional_assigned,
                   current_sim_time, step_count, scheduled_bookings, instant_bookings,
                   total_bookings, loaded_instant_bookings, locked_booking_ids,
                   locked_bookings, previous_locked_assignments,
                   previous_locked_vehicle_states, new_bookings_since_last_run>>

ReplayLocked ==
    /\ mode = "simple"
    /\ pc = "replay"
    /\ replay # <<>>
    /\ LET v == Head(replay)[1]
           booking == FindBooking(total_bookings, Head(replay)[2])
       IN  /\ vehicles' = [vehicles EXCEPT ![v] =
                              [assign_booking_to_vehicle(@, booking)
                                  EXCEPT !.is_routed = FALSE]]
           /\ assignments' = record_assignment(assignments, vehicles[v], booking)
    /\ replay' = Tail(replay)
    /\ UNCHANGED <<mode, vehicles_data, bookings, unassigned_bookings, pc, caller, idx,
                   assigned_booking_ids, best_vehicle, initial_vehicle_state, pending,
                   additional_assigned, current_sim_time, step_count,
                   scheduled_bookings, instant_bookings, total_bookings,
                   loaded_instant_bookings, locked_booking_ids, locked_bookings,
                   previous_locked_assignments, previous_locked_vehicle_states,
                   new_bookings_since_last_run>>

remaining_bookings ==
    SelectSeq(total_bookings,
              LAMBDA b : b.booking_id \notin DOMAIN previous_locked_assignments)

PlanRemaining ==
    /\ mode = "simple"
    /\ pc = "replay"
    /\ replay = <<>>
    /\ remaining_bookings # <<>>
    /\ bookings' = remaining_bookings
    /\ unassigned_bookings' = <<>>
    /\ assigned_booking_ids' = {}
    /\ idx' = 1
    /\ pc' = "loop"
    /\ UNCHANGED <<mode, vehicles_data, vehicles, assignments, caller, best_vehicle,
                   initial_vehicle_state, pending, additional_assigned, sim_vars>>

\* "if remaining_bookings:" is false: the planner is not entered at all
SkipPlanning ==
    /\ mode = "simple"
    /\ pc = "replay"
    /\ replay = <<>>
    /\ remaining_bookings = <<>>
    /\ pc' = "done"
    /\ UNCHANGED <<mode, vehicles_data, bookings, vehicles, assignments,
                   unassigned_bookings, caller, idx, assigned_booking_ids,
                   best_vehicle, initial_vehicle_state, pending, additional_assigned,
                   sim_vars>>

----------------------------------------------------------------------------
(* instant.py: one long-lived assigner; locked bookings stay on their vehicle, *)
(* unlocked ones are stripped and planned again by reassign_unlocked_bookings  *)

InitInstant ==
    /\ mode = "instant"
    /\ \E S \in SimVehicleChoices : vehicles_data = VehicleSubList(S)
    /\ \E S \in ScheduledChoices : scheduled_bookings = SubList(BookingCatalogue, S)
    /\ \E S \in InstantChoices :
          instant_bookings \in InstantLists(SubList(BookingCatalogue, S))
    /\ StartPlanner(scheduled_bookings, vehicles_data)
    /\ current_sim_time = 0
    /\ step_count = 0
    /\ total_bookings = <<>>
    /\ loaded_instant_bookings = <<>>
    /\ locked_booking_ids = {}
    /\ locked_bookings = {}
    /\ previous_locked_assignments = <<>>
    /\ previous_locked_vehicle_states = <<>>
    /\ replay = <<>>
    /\ new_bookings_since_last_run = FALSE

\* load_scheduled_assignments after the planner returned, then run_simulation
\* sets the clock to 6:00
ResetAvailability ==
    /\ mode = "instant"
    /\ pc = "done"
    /\ vehicles' = [i \in 1..Len(vehicles) |->
                      [vehicles[i] EXCEPT !.available_time = start_time,
                                          !.is_routed = FALSE]]
    /\ current_sim_time' = start_time
    /\ pc' = "tick"
    /\ UNCHANGED <<mode, vehicles_data, bookings, assignments, unassigned_bookings,
                   caller, idx, assigned_booking_ids, best_vehicle,
                   initial_vehicle_state, pending, additional_assigned, step_count,
                   scheduled_bookings, instant_bookings, total_bookings,
                   loaded_instant_bookings, locked_booking_ids, locked_bookings,
                   previous_locked_assignments, previous_locked_vehicle_states,
                   replay, new_bookings_since_last_run>>

check_and_load_instant_bookings ==
    DueInstant(current_sim_time, loaded_instant_bookings)

CheckAndLoad ==
    /\ mode = "instant"
    /\ pc = "tick"
    /\ current_sim_time < end_time_instant
    /\ step_count' = step_count + 1
    /\ loaded_instant_bookings' = loaded_instant_bookings \o check_and_load_instant_bookings
    /\ new_bookings_since_last_run' =
          (new_bookings_since_last_run \/ check_and_load_instant_bookings # <<>>)
    /\ pc' = "lock"
    /\ UNCHANGED <<mode, vehicles_data, bookings, vehicles, assignments,
                   unassigned_bookings, caller, idx, assigned_booking_ids,
                   best_vehicle, initial_vehicle_state, pending, additional_assigned,
                   current_sim_time, scheduled_bookings, instant_bookings,
                   total_bookings, locked_booking_ids, locked_bookings,
                   previous_locked_assignments, previous_locked_vehicle_states, replay>>

\* _find_booking_data looks in the scheduled list first, _get_booking_pickup_time
\* and _get_booking_completion_time in the loaded instant list first
find_booking_data(id) == FindBooking(scheduled_bookings \o loaded_instant_bookings, id)
find_booking_instant_first(id) ==
    FindBooking(loaded_instant_bookings \o scheduled_bookings, id)

booking_is_locked(id, now) ==
    LET booking == find_booking_instant_first(id)
        pickup_time == get_pickup_time_minutes(booking.pickup_time)
    IN  /\ booking # NoBooking
        /\ pickup_time # 0
        /\ (pickup_time <= now \/ pickup_time <= now + lock_window)

get_booking_completion_time(id) ==
    LET booking == find_booking_instant_first(id)
    IN  get_pickup_time_minutes(booking.pickup_time)
            + get_travel_time(booking, 30) + service_time

RECURSIVE MaxOver(_, _)
MaxOver(s, floor) ==
    IF s = <<>> THEN floor ELSE MaxOver(Tail(s), Max(floor, Head(s)))

UpdateLockedAssignments ==
    /\ mode = "instant"
    /\ pc = "lock"
    /\ locked_bookings' =
          {b \in Range(AllAssignedOf(vehicles)) : booking_is_locked(b, current_sim_time)}
    /\ vehicles' = [i \in 1..Len(vehicles) |->
          LET locked == SelectSeq(vehicles[i].assigned_bookings,
                                  LAMBDA b : booking_is_locked(b, current_sim_time))
          IN  [vehicles[i] EXCEPT !.available_time =
                  MaxOver([k \in 1..Len(locked) |-> get_booking_completion_time(locked[k])],
                          current_sim_time)]]
    /\ pc' = "decide"
    /\ UNCHANGED <<mode, vehicles_data, bookings, assignments, unassigned_bookings,
                   caller, idx, assigned_booking_ids, best_vehicle,
                   initial_vehicle_state, pending, additional_assigned,
                   current_sim_time, step_count, scheduled_bookings, instant_bookings,
                   total_bookings, loaded_instant_bookings, locked_booking_ids,
                   previous_locked_assignments, previous_locked_vehicle_states,
                   replay, new_bookings_since_last_run>>

SkipReassign ==
    /\ mode = "instant"
    /\ pc = "decide"
    /\ ~new_bookings_since_last_run
    /\ current_sim_time' = current_sim_time + step_interval
    /\ pc' = "tick"
    /\ UNCHANGED <<mode, vehicles_data, bookings, vehicles, assignments,
                   unassigned_bookings, caller, idx, assigned_booking_ids,
                   best_vehicle, initial_vehicle_state, pending, additional_assigned,
                   step_count, scheduled_bookings, instant_bookings, total_bookings,
                   loaded_instant_bookings, locked_booking_ids, locked_bookings,
                   previous_locked_assignments, previous_locked_vehicle_states,
                   replay, new_bookings_since_last_run>>

\* faulty variant: an instant booking inside the lock window is left out
get_unlocked_bookings_outside_window ==
    LET from_vehicles ==
            Flatten([i \in 1..Len(vehicles) |->
                LET ids == SelectSeq(vehicles[i].assigned_bookings,
                                     LAMBDA b : b \notin locked_bookings
                                                /\ find_booking_data(b) # NoBooking)
                IN  [k \in 1..Len(ids) |-> find_booking_data(ids[k])]])
        from_instant ==
            SelectSeq(loaded_instant_bookings,
                      LAMBDA b : /\ b.booking_id \notin locked_bookings
                                 /\ b.booking_id \notin Range(AllAssignedOf(vehicles))
                                 /\ get_pickup_time_minutes(b.pickup_time)
                                        > current_sim_time + lock_window)
        from_unassigned ==
            SelectSeq(unassigned_bookings, LAMBDA b : b.booking_id \notin locked_bookings)
    IN  from_vehicles \o from_instant \o from_unassigned

get_unlocked_bookings ==
    LET from_vehicles ==
            Flatten([i \in 1..Len(vehicles) |->
                LET ids == SelectSeq(vehicles[i].assigned_bookings,
                                     LAMBDA b : b \notin locked_bookings
                                                /\ find_booking_data(b) # NoBooking)
                IN  [k \in 1..Len(ids) |-> find_booking_data(ids[k])]])
        from_instant ==
            SelectSeq(loaded_instant_bookings,
                      LAMBDA b : /\ b.booking_id \notin locked_bookings
                                 /\ b.booking_id \notin Range(AllAssignedOf(vehicles)))
        from_unassigned ==
            SelectSeq(unassigned_bookings, LAMBDA b : b.booking_id \notin locked_bookings)
    IN  from_vehicles \o from_instant \o from_unassigned

LockedOnVehicle(vehicle) ==
    SelectSeq(vehicle.assigned_bookings, LAMBDA b : b \in locked_bookings)

RECURSIVE RouteOf(_)
RouteOf(bs) ==
    IF bs = <<>> THEN <<>> ELSE <<Head(bs).pickup, Head(bs).drop>> \o RouteOf(Tail(bs))

RECURSIVE SumKm(_)
SumKm(bs) == IF bs = <<>> THEN 0 ELSE Head(bs).distance_km + SumKm(Tail(bs))

calculate_locked_dead_km_fallback(locked_bookings_data) ==
    (SumKm(locked_bookings_data) * 35) \div 100

\* the import of _calculate_ddm_without_final_home from service fails, so the
\* metrics come from the ImportError branch
recalculate_vehicle_metrics_for_locked_bookings(vehicle, locked_ids, now) ==
    LET found == SelectSeq(locked_ids, LAMBDA b : find_booking_data(b) # NoBooking)
        locked_bookings_data ==
            SortedByTime([k \in 1..Len(found) |-> find_booking_data(found[k])])
        active == SumKm(locked_bookings_data)
        dead == calculate_locked_dead_km_fallback(locked_bookings_data)
    IN  IF locked_bookings_data = <<>>
        THEN [vehicle EXCEPT !.route = <<>>, !.active_km = 0, !.dead_km = 0,
                             !.total_driver_pay = 0, !.is_routed = FALSE,
                             !.available_time = now]
        ELSE [vehicle EXCEPT
                 !.route = RouteOf(locked_bookings_data),
                 !.active_km = active,
                 !.dead_km = dead,
                 !.total_driver_pay = (active + dead) * 15,
                 !.is_routed = TRUE,
                 !.available_time =
                     get_pickup_time_minutes(Last(locked_bookings_data).pickup_time) + 60]

StripUnlocked(vehicle, now) ==
    recalculate_vehicle_metrics_for_locked_bookings(
        [vehicle EXCEPT !.assigned_bookings = LockedOnVehicle(vehicle)],
        LockedOnVehicle(vehicle), now)

\* reassign_unlocked_bookings up to the start of its loop; with nothing
\* unlocked it returns at once and the tick ends
StartReassign ==
    /\ mode = "instant"
    /\ pc = "decide"
    /\ new_bookings_since_last_run
    /\ IF get_unlocked_bookings = <<>>
       THEN /\ new_bookings_since_last_run' = FALSE
            /\ current_sim_time' = current_sim_time + step_interval
            /\ pc' = "tick"
            /\ UNCHANGED <<bookings, vehicles, assignments, caller, idx,
                           assigned_booking_ids>>
       ELSE /\ bookings' = get_unlocked_bookings
            /\ vehicles' = [i \in 1..Len(vehicles) |->
                               StripUnlocked(vehicles[i], current_sim_time)]
            /\ assignments' = [id \in {vehicles[i].vehicle_id : i \in 1..Len(vehicles)} |->
                  vehicles'[CHOOSE i \in 1..Len(vehicles) :
                                vehicles[i].vehicle_id = id].assigned_bookings]
            /\ assigned_booking_ids' = locked_bookings
            /\ idx' = 1
            /\ caller' = "reassign_unlocked_bookings"
            /\ pc' = "loop"
            /\ UNCHANGED <<current_sim_time, new_bookings_since_last_run>>
    /\ UNCHANGED <<mode, vehicles_data, unassigned_bookings, best_vehicle,
                   initial_vehicle_state, pending, additional_assigned, step_count,
                   scheduled_bookings, instant_bookings, total_bookings,
                   loaded_instant_bookings, locked_booking_ids, locked_bookings,
                   previous_locked_assignments, previous_locked_vehicle_states, replay>>

\* the candidates that pass the loop's own availability test
AvailableAmong(cands, booking) ==
    SelectSeq(cands, LAMBDA i : is_vehicle_available_for_booking(vehicles[i], booking))

ReassignSkip ==
    /\ InLoop("reassign_unlocked_bookings")
    /\ FreshBooking.booking_id \in assigned_booking_ids
    /\ idx' = idx + 1
    /\ UNCHANGED <<bookings, vehicles, assignments, unassigned_bookings, pc, caller,
                   assigned_booking_ids, best_vehicle, initial_vehicle_state,
                   pending, additional_assigned>>
    /\ NoSimStep

\* same-class pass: the booking is committed and the loop moves on; the call of
\* complete_vehicle_route sits in the branch where no vehicle was picked
ReassignPrimary ==
    /\ InLoop("reassign_unlocked_bookings")
    /\ FreshBooking.booking_id \notin assigned_booking_ids
    /\ LET suitable_vehicles == get_suitable_vehicles(vehicles, FreshBooking)
           v == SelectBestVehicle(vehicles, AvailableAmong(suitable_vehicles, FreshBooking),
                                  FreshBooking, bookings, 0, Inf)
       IN  /\ suitable_vehicles # <<>>
           /\ v # 0
           /\ vehicles' = [vehicles EXCEPT ![v] = assign_booking_to_vehicle(@, FreshBooking)]
           /\ assignments' = record_assignment(assignments, vehicles[v], FreshBooking)
           /\ best_vehicle' = v
    /\ assigned_booking_ids' = assigned_booking_ids \cup {FreshBooking.booking_id}
    /\ idx' = idx + 1
    /\ UNCHANGED <<bookings, unassigned_bookings, pc, caller, initial_vehicle_state,
                   pending, additional_assigned>>
    /\ NoSimStep

ReassignUpgrade ==
    /\ InLoop("reassign_unlocked_bookings")
    /\ FreshBooking.booking_id \notin assigned_booking_ids
    /\ get_suitable_vehicles(vehicles, FreshBooking) = <<>>
    /\ FreshBooking.vehicle_type < 9
    /\ LET higher_class_vehicles ==
               get_suitable_vehicles(vehicles, HigherClassBooking(FreshBooking))
           v == SelectBestVehicle(vehicles,
                                  AvailableAmong(higher_class_vehicles, FreshBooking),
                                  FreshBooking, bookings, 0, Inf)
       IN  /\ higher_class_vehicles # <<>>
           /\ v # 0
           /\ CommitFresh(v)
    /\ pc' = "complete"

ReassignNotAssigned ==
    /\ InLoop("reassign_unlocked_bookings")
    /\ FreshBooking.booking_id \notin assigned_booking_ids
    /\ get_suitable_vehicles(vehicles, FreshBooking) = <<>>
    /\ FreshBooking.vehicle_type < 9
          => get_suitable_vehicles(vehicles, HigherClassBooking(FreshBooking)) = <<>>
    /\ idx' = idx + 1
    /\ UNCHANGED <<bookings, vehicles, assignments, unassigned_bookings, pc, caller,
                   assigned_booking_ids, best_vehicle, initial_vehicle_state,
                   pending, additional_assigned>>
    /\ NoSimStep

\* _finalize_combined_metrics on one vehicle
finalize_combined_metrics(vehicle) ==
    IF vehicle.assigned_bookings # <<>> /\ Len(vehicle.route) >= 2
    THEN LET final_home_distance == get_distance(Last(vehicle.route), vehicle.home)
         IN  [vehicle EXCEPT
                 !.dead_km = @ + final_home_distance,
                 !.total_driver_pay =
                     @ + final_home_distance * dead_driver_pay[vehicle.vehicle_type]]
    ELSE vehicle

\* the loop is over: the temporary assigner's vehicles are installed and
\* finalized, the flag is cleared and the clock advances
InstallReassigned ==
    /\ mode = "instant"
    /\ pc = "loop"
    /\ caller = "reassign_unlocked_bookings"
    /\ idx > Len(ascending_bookings)
    /\ vehicles' = [i \in 1..Len(vehicles) |-> finalize_combined_metrics(vehicles[i])]
    /\ new_bookings_since_last_run' = FALSE
    /\ current_sim_time' = current_sim_time + step_interval
    /\ pc' = "tick"
    /\ UNCHANGED <<mode, vehicles_data, bookings, assignments, unassigned_bookings,
                   caller, idx, assigned_booking_ids, best_vehicle,
                   initial_vehicle_state, pending, additional_assigned, step_count,
                   scheduled_bookings, instant_bookings, total_bookings,
                   loaded_instant_bookings, locked_booking_ids, locked_bookings,
                   previous_locked_assignments, previous_locked_vehicle_states, replay>>

InitSim == InitSimple \/ InitInstant

NextSim ==
    \/ SkipAssigned
    \/ AssignPrimary
    \/ AssignUpgrade
    \/ NotAssigned
    \/ CompleteNoEnding
    \/ CompleteSelect
    \/ CommitPending
    \/ GateReject
    \/ GateAccept
    \/ Finalize
    \/ StoreLocked
    \/ AdvanceStep
    \/ BreakLoop
    \/ StartAssignment
    \/ ReplayLocked
    \/ PlanRemaining
    \/ SkipPlanning
    \/ ResetAvailability
    \/ CheckAndLoad
    \/ UpdateLockedAssignments
    \/ SkipReassign
    \/ StartReassign
    \/ ReassignSkip
    \/ ReassignPrimary
    \/ ReassignUpgrade
    \/ ReassignNotAssigned
    \/ InstallReassigned

SpecSim == InitSim /\ [][NextSim]_vars

----------------------------------------------------------------------------
(* Properties *)

Fleet == 1..Len(vehicles)

AllAssigned == AllAssignedOf(vehicles)

NoDuplicates(s) == \A i, j \in 1..Len(s) : s[i] = s[j] => i = j

\* the ids of assignments[vehicle_id] dropped from the vehicle by a rollback
RolledBack(i) ==
    Range(assignments[vehicles[i].vehicle_id]) \ Range(vehicles[i].assigned_bookings)

RECURSIVE SumBookedKm(_, _)
SumBookedKm(ids, bs) ==
    IF ids = <<>> THEN 0
    ELSE FindBooking(bs, Head(ids)).distance_km + SumBookedKm(Tail(ids), bs)

ClosedDeadKm(route, home) ==
    IF route = <<>> THEN 0 ELSE OpenDeadKm(route, home) + get_distance(Last(route), home)

PlannerReturned == pc = "done"

\* C1: when process_bookings_home_oriented returns, no booking id occurs twice
\* over all vehicles' assigned_bookings, and the assigned ids and the ids of
\* unassigned_bookings are disjoint and together are exactly the input ids.
C1_BookingUniqueness ==
    PlannerReturned =>
        /\ NoDuplicates(AllAssigned)
        /\ Range(AllAssigned) \cap IdsOf(unassigned_bookings) = {}
        /\ Range(AllAssigned) \cup IdsOf(unassigned_bookings) = IdsOf(bookings)

\* a run that returned after an upgrade or primary assignment, an accepted
\* completion on one vehicle, a rolled-back completion, and a booking left over
C1_Witness ==
    /\ mode = "batch"
    /\ PlannerReturned
    /\ unassigned_bookings # <<>>
    /\ \E i \in Fleet : RolledBack(i) # {} /\ vehicles[i].assigned_bookings # <<>>
    /\ \E i \in Fleet : Len(vehicles[i].assigned_bookings) >= 2

\* C3: available_time of every vehicle never decreases over a planner run,
\* in particular not when a completion is rejected or finds no ending.
C3_TimeMonotonic ==
    [][\A i \in Fleet : vehicles'[i].available_time >= vehicles[i].available_time]_vars

\* a vehicle whose completion found no ending or was rejected, back in the loop
C3_Witness ==
    /\ mode = "batch"
    /\ pc = "loop"
    /\ \E i \in Fleet : /\ ~vehicles[i].is_routed
                        /\ vehicles[i].assigned_bookings # <<>>
                        /\ RolledBack(i) # {}

Efficient(vehicle) ==
    vehicle.active_km * 100
        >= min_efficiency_threshold * (vehicle.active_km + vehicle.dead_km)

\* C4: after the batch planner returns, every routed vehicle with at least two
\* bookings has efficiency >= 55% (dead km with the home leg) and its last
\* drop is at most 20 km from home.
C4_GateSoundness ==
    PlannerReturned =>
        \A i \in Fleet :
            vehicles[i].is_routed /\ Len(vehicles[i].assigned_bookings) >= 2
                => /\ Efficient(vehicles[i])
                   /\ get_distance(Last(vehicles[i].route), vehicles[i].home)
                          <= max_final_distance_from_home

\* C5: after the batch planner returns, every routed vehicle with at least two
\* bookings has its last drop at most 15 km from home.
C5_HomeOriented ==
    PlannerReturned =>
        \A i \in Fleet :
            vehicles[i].is_routed /\ Len(vehicles[i].assigned_bookings) >= 2
                => get_distance(Last(vehicles[i].route), vehicles[i].home)
                       <= max_acceptable_distance_fallback

\* C8: after every commit and every rollback, each vehicle's active_km is the
\* sum of distance_km over the bookings in its assigned_bookings.
C8_ActiveKm ==
    mode = "batch" =>
        \A i \in Fleet :
            vehicles[i].active_km = SumBookedKm(vehicles[i].assigned_bookings, bookings)

\* the state right after a rollback that dropped committed bookings
C8_Witness ==
    /\ mode = "batch"
    /\ pc = "loop"
    /\ \E i \in Fleet : /\ RolledBack(i) # {}
                        /\ vehicles[i].active_km > 0
                        /\ ~vehicles[i].is_routed

\* C9: in the batch planner an unrouted vehicle's dead_km is home -> first pickup
\* plus the drop -> next pickup legs, without the home leg; and at return every
\* vehicle with a booking is routed and its dead_km is that sum plus
\* last drop -> home, which is what recomputing from the route gives.
C9_DeadKm ==
    mode = "batch" =>
        \A i \in Fleet :
            /\ ~vehicles[i].is_routed
                  => vehicles[i].dead_km = OpenDeadKm(vehicles[i].route, vehicles[i].home)
            /\ PlannerReturned /\ vehicles[i].assigned_bookings # <<>>
                  => /\ vehicles[i].is_routed
                     /\ vehicles[i].dead_km
                            = ClosedDeadKm(vehicles[i].route, vehicles[i].home)
                     /\ vehicles[i].dead_km
                            = calculate_ddm(vehicles[i].route, vehicles[i].home)

\* a returned run with a vehicle routed by an accepted completion and a vehicle
\* routed by the finalization, both ending away from home
C9_Witness ==
    /\ mode = "batch"
    /\ PlannerReturned
    /\ \E i, j \in Fleet :
          /\ i # j
          /\ Len(vehicles[i].assigned_bookings) >= 2
          /\ Efficient(vehicles[i])
          /\ Len(vehicles[j].assigned_bookings) = 1
          /\ vehicles[i].current # vehicles[i].home
          /\ vehicles[j].current # vehicles[j].home

----------------------------------------------------------------------------
(* Properties of the simulators *)

KnownBookings ==
    bookings \o total_bookings \o scheduled_bookings \o loaded_instant_bookings

Holds(i, b) == InSeq(b, vehicles[i].assigned_bookings)

\* C2: a booking that is locked and assigned to vehicle V at the end of a tick
\* is assigned to the same V at the end of every later tick.  instant_simple
\* records the locked assignments at the end of each tick
\* (previous_locked_assignments); in instant a locked booking never leaves its
\* vehicle and the lock set only grows.
C2_LockPreservation ==
    [][/\ mode = "simple" =>
            \A b \in DOMAIN previous_locked_assignments :
                /\ b \in DOMAIN previous_locked_assignments'
                /\ previous_locked_assignments'[b] = previous_locked_assignments[b]
       /\ mode = "instant" =>
            /\ locked_bookings \subseteq locked_bookings'
            /\ \A b \in locked_bookings : \A i \in Fleet :
                   Holds(i, b) => InSeq(b, vehicles'[i].assigned_bookings)]_vars

\* the end of a later tick of instant_simple: an instant booking was admitted,
\* the planner ran on the remaining bookings, and a vehicle carries two locked
\* bookings that were replayed
C2_Witness ==
    /\ mode = "simple"
    /\ pc = "summary"
    /\ step_count >= 2
    /\ Len(total_bookings) > Len(scheduled_bookings)
    /\ \E i \in Fleet :
          /\ vehicles[i].vehicle_id \in DOMAIN previous_locked_vehicle_states
          /\ Len(previous_locked_vehicle_states[vehicles[i].vehicle_id]) >= 2

\* the tick of instant in which unlocked bookings were stripped and planned
\* again while a vehicle kept its locked bookings
C2_WitnessInstant ==
    /\ mode = "instant"
    /\ pc = "tick"
    /\ caller = "reassign_unlocked_bookings"
    /\ \E i \in Fleet : \E b \in locked_bookings : Holds(i, b)
    /\ \E i \in Fleet : \E b \in Range(vehicles[i].assigned_bookings) :
          b \notin locked_bookings

\* C6: the vehicle state right before every call of assign_booking_to_vehicle
\* (fresh, upgrade, middle, ending, replay of a locked booking) satisfies
\* available_time + travel time to the pickup <= pickup time + 60.
C6_CommitFeasible ==
    [][\A i \in Fleet :
          /\ Len(vehicles') = Len(vehicles)
          /\ Len(vehicles'[i].assigned_bookings) = Len(vehicles[i].assigned_bookings) + 1
          => is_vehicle_available_for_booking(
                 vehicles[i],
                 FindBooking(KnownBookings', Last(vehicles'[i].assigned_bookings)))]_vars

\* a locked booking has just been replayed onto its vehicle
C6_Witness ==
    /\ mode = "simple"
    /\ pc = "replay"
    /\ \E i \in Fleet : Len(vehicles[i].assigned_bookings) >= 3

\* C7: in every state each vehicle's route is the concatenation, in the order
\* of assigned_bookings, of the (pickup, drop) pairs of its bookings.
C7_RouteMatchesBookings ==
    \A i \in Fleet :
        vehicles[i].route =
            RouteOf([k \in 1..Len(vehicles[i].assigned_bookings) |->
                        FindBooking(KnownBookings, vehicles[i].assigned_bookings[k])])

\* the reassignment has stripped the unlocked bookings and rebuilt the route of
\* a vehicle that keeps two or more locked bookings
C7_Witness ==
    /\ mode = "instant"
    /\ pc = "loop"
    /\ caller = "reassign_unlocked_bookings"
    /\ idx = 1
    /\ \E i \in Fleet : Len(vehicles[i].assigned_bookings) >= 2

\* C10: at the end of every simulator tick in which the assignment ran, every
\* vehicle with bookings has the last drop -> home leg in dead_km exactly once.
C10_HomeLegOnce ==
    mode = "simple" /\ pc = "summary" =>
        \A i \in Fleet :
            vehicles[i].assigned_bookings # <<>>
                => vehicles[i].dead_km = ClosedDeadKm(vehicles[i].route, vehicles[i].home)

\* instant: a vehicle whose route was accepted by the completion step and then
\* finalized again carries the home leg twice
C10_Witness ==
    /\ mode = "instant"
    /\ pc = "tick"
    /\ caller = "reassign_unlocked_bookings"
    /\ \E i \in Fleet :
          /\ Len(vehicles[i].assigned_bookings) >= 2
          /\ vehicles[i].current # vehicles[i].home
          /\ vehicles[i].dead_km = ClosedDeadKm(vehicles[i].route, vehicles[i].home)
                                       + get_distance(vehicles[i].current, vehicles[i].home)

----------------------------------------------------------------------------
(* Admission, locking and the order of a tick *)

\* the active booking set of the running simulator
ActiveSet ==
    IF mode = "simple" THEN total_bookings
    ELSE scheduled_bookings \o loaded_instant_bookings

ActiveIds == [k \in 1..Len(ActiveSet) |-> ActiveSet[k].booking_id]

\* C11: an instant booking that is in the active set stays in it at every later
\* step, and the active set never holds the same booking twice.
C11_AdmissionMonotonic ==
    [][/\ \A k \in 1..Len(ActiveSet) : InSeq(ActiveSet[k], ActiveSet')
       /\ NoDuplicates(ActiveIds')]_vars

\* an instant booking admitted at an earlier tick, seen at the end of a later one
C11_Witness ==
    /\ mode = "simple"
    /\ pc = "summary"
    /\ \E k \in 1..Len(instant_bookings) :
          /\ instant_bookings[k].load_time + step_interval <= current_sim_time
          /\ InSeq(instant_bookings[k].booking_data, total_bookings)

\* the states that follow the admission step of the tick at current_sim_time:
\* instant_simple admits while it advances the clock, instant admits as the
\* first step of a tick (pc = "tick" is the moment before it)
AfterAdmission == mode = "simple" \/ (mode = "instant" /\ pc # "tick")

\* C12: after the admission step of every tick, the first one at 06:00
\* included, an instant booking is in the active set exactly when its
\* load_time is at most the current sim minute.
C12_AdmissionComplete ==
    AfterAdmission =>
        \A k \in 1..Len(instant_bookings) :
            instant_bookings[k].load_time <= current_sim_time
                <=> InSeq(instant_bookings[k].booking_data, ActiveSet)

\* the first tick of instant has admitted a booking whose load_time is 06:00
C12_Witness ==
    /\ mode = "instant"
    /\ pc = "lock"
    /\ current_sim_time = start_time
    /\ loaded_instant_bookings # <<>>

\* the active bookings whose pickup minute is within two hours of the clock
WithinLockWindow ==
    {ActiveSet[k].booking_id : k \in {j \in 1..Len(ActiveSet) :
        get_pickup_time_minutes(ActiveSet[j].pickup_time) <= current_sim_time + 120}}

\* C13: after the locking step of a tick the locked set is exactly the set of
\* active bookings, assigned or not, whose pickup minute is at most
\* sim_minute + 120.
C13_LockedSetExact ==
    /\ mode = "simple" /\ pc = "summary" => locked_booking_ids = WithinLockWindow
    /\ mode = "instant" /\ pc = "decide" => locked_bookings = WithinLockWindow

\* the locking step of instant has locked some bookings and left a later one
\* unlocked
C13_Witness ==
    /\ mode = "instant"
    /\ pc = "decide"
    /\ locked_bookings # {}
    /\ locked_bookings = WithinLockWindow
    /\ \E k \in 1..Len(ActiveSet) : ActiveSet[k].booking_id \notin locked_bookings

\* the step that enters the replan of a tick: run_home_oriented_assignment
\* builds its assigner, reassign_unlocked_bookings strips the vehicles
ReplanStarts ==
    \/ mode = "simple" /\ pc = "assign" /\ pc' = "replay"
    \/ mode = "instant" /\ pc = "decide" /\ pc' = "loop"

AdmissionDone ==
    \A k \in 1..Len(instant_bookings) :
        instant_bookings[k].load_time <= current_sim_time
            => InSeq(instant_bookings[k].booking_data, ActiveSet)

\* the lock set the replan works with is the one of the current sim minute
LockSetCurrent ==
    IF mode = "simple"
    THEN locked_booking_ids = update_locked_bookings(total_bookings, current_sim_time)
    ELSE locked_bookings =
             {b \in Range(AllAssigned) : booking_is_locked(b, current_sim_time)}

\* C14: within a tick the replan starts only after the admission of the tick
\* and after the locked set has been computed for the current sim minute.
C14_TickOrder ==
    [][ReplanStarts => AdmissionDone /\ LockSetCurrent]_vars

\* a replan of instant that started with a freshly computed, non-empty lock set
C14_Witness ==
    /\ mode = "instant"
    /\ pc = "loop"
    /\ caller = "reassign_unlocked_bookings"
    /\ idx = 1
    /\ locked_bookings # {}
    /\ current_sim_time > start_time

\* an instant booking was admitted by the admission step of this tick; the
\* first pass of instant_simple's loop admits everything due since 06:00
AdmittedThisTick ==
    \E k \in 1..Len(instant_bookings) :
        /\ instant_bookings[k].load_time <= current_sim_time
        /\ \/ instant_bookings[k].load_time > current_sim_time - step_interval
           \/ mode = "simple" /\ step_count = 1

\* C15: a replan runs at a tick exactly when an instant booking was admitted
\* since the previous replan: no admission, no replan; an admission is
\* followed by the replan in the same tick.
C15_ReplanIffAdmitted ==
    [][/\ ReplanStarts => AdmittedThisTick
       /\ mode = "instant" /\ pc = "decide" /\ AdmittedThisTick => pc' = "loop"]_vars

\* instant has started a replan in the tick that admitted an instant booking
C15_Witness ==
    /\ mode = "instant"
    /\ pc = "loop"
    /\ caller = "reassign_unlocked_bookings"
    /\ idx = 1
    /\ AdmittedThisTick
    /\ scheduled_bookings # <<>>

----------------------------------------------------------------------------
(* Class compatibility of committed bookings *)

\* C16: every booking on a vehicle's assigned_bookings is of the vehicle's
\* class or of the class one below it; in particular a class9 booking is
\* only ever on a class9 vehicle.
C16_ClassCompatibility ==
    \A i \in Fleet : \A k \in 1..Len(vehicles[i].assigned_bookings) :
        LET booking == FindBooking(KnownBookings, vehicles[i].assigned_bookings[k])
        IN  /\ \/ vehicles[i].vehicle_type = booking.vehicle_type
               \/ vehicles[i].vehicle_type = booking.vehicle_type + 1
            /\ booking.vehicle_type = 9 => vehicles[i].vehicle_type = 9

\* one vehicle carries a booking of the class below its own next to one of
\* its own class, and a class9 booking sits on a class9 vehicle
C16_Witness ==
    /\ \E i \in Fleet : \E k, l \in 1..Len(vehicles[i].assigned_bookings) :
          /\ FindBooking(KnownBookings, vehicles[i].assigned_bookings[k]).vehicle_type + 1
                 = vehicles[i].vehicle_type
          /\ FindBooking(KnownBookings, vehicles[i].assigned_bookings[l]).vehicle_type
                 = vehicles[i].vehicle_type
    /\ \E i \in Fleet : \E k \in 1..Len(vehicles[i].assigned_bookings) :
          FindBooking(KnownBookings, vehicles[i].assigned_bookings[k]).vehicle_type = 9

----------------------------------------------------------------------------
(* A completion that returns nothing *)

\* complete_vehicle_route is about to return the empty list: no ending
\* booking was found, or the gate rejects the tentatively extended route
ReturnsWithoutCompleting ==
    \/ pc = "complete" /\ pc' = "loop"
    \/ pc = "gate" /\ GateRejects(vehicles[best_vehicle]) /\ pc' = "loop"

\* the vehicle as it was when complete_vehicle_route was entered
EntryState ==
    IF pc = "complete" THEN Snapshot(vehicles[best_vehicle]) ELSE initial_vehicle_state

\* the middle and ending bookings committed since the entry
TentativeIds == IF pc = "gate" THEN Range(additional_assigned) ELSE {}

\* C17: when complete_vehicle_route returns without completing a route (no
\* ending booking, efficiency below 55%, home leg above 20 km) the vehicle's
\* route, assigned_bookings, active_km, dead_km, position, hex and
\* total_driver_pay are the values at entry, is_routed is false, the fresh
\* booking is still on the vehicle and no tentatively committed booking is
\* on the vehicle or among the assigned ids.
C17_RejectionRestoresEntryState ==
    [][ReturnsWithoutCompleting =>
          LET vehicle == vehicles'[best_vehicle]
              entry == EntryState
          IN  /\ vehicle.route = entry.route
              /\ vehicle.assigned_bookings = entry.assigned_bookings
              /\ vehicle.active_km = entry.active_km
              /\ vehicle.dead_km = entry.dead_km
              /\ vehicle.current = entry.current
              /\ vehicle.h3_hex = entry.h3_hex
              /\ vehicle.total_driver_pay = entry.total_driver_pay
              /\ ~vehicle.is_routed
              /\ vehicle.assigned_bookings # <<>>
              /\ vehicles[best_vehicle].assigned_bookings
                     = entry.assigned_bookings \o additional_assigned
                 \/ pc = "complete"
              /\ \A id \in TentativeIds :
                    /\ ~InSeq(id, vehicle.assigned_bookings)
                    /\ id \notin assigned_booking_ids']_vars

\* the gate has just rejected a route: the bookings it had committed are off
\* the vehicle, which is back at the drop of its fresh booking, not routed
C17_Witness ==
    /\ mode = "batch"
    /\ pc = "loop"
    /\ best_vehicle # 0
    /\ additional_assigned # <<>>
    /\ ~vehicles[best_vehicle].is_routed
    /\ vehicles[best_vehicle].assigned_bookings = initial_vehicle_state.assigned_bookings
    /\ vehicles[best_vehicle].current = initial_vehicle_state.current
    /\ Range(additional_assigned) \subseteq RolledBack(best_vehicle)
    /\ Range(additional_assigned) \cap assigned_booking_ids = {}

----------------------------------------------------------------------------
(* A replan aborted by an exception                                           *)
(*                                                                            *)
(* Neither simulator catches an exception inside a replan: it propagates to   *)
(* main, whose handler logs it, and the run is over (pc = "aborted").  The    *)
(* simulator object keeps whatever the replan had written up to that point.   *)

\* instant_simple: the exception leaves run_home_oriented_assignment during
\* the replay or the residue planning; the local assigner is dropped, the
\* simulator's own fields have not been written yet
AbortReplan ==
    /\ mode = "simple"
    /\ step_count > 0
    /\ pc \in {"replay", "loop", "complete", "commit", "gate"}
    /\ pc' = "aborted"
    /\ bookings' = <<>>
    /\ vehicles' = initialize_vehicles(vehicles_data)
    /\ assignments' = initial_assignments(vehicles_data)
    /\ unassigned_bookings' = <<>>
    /\ idx' = 1
    /\ assigned_booking_ids' = {}
    /\ best_vehicle' = 0
    /\ initial_vehicle_state' = NoSnapshot
    /\ pending' = <<>>
    /\ additional_assigned' = <<>>
    /\ replay' = <<>>
    /\ UNCHANGED <<mode, vehicles_data, caller, current_sim_time, step_count,
                   scheduled_bookings, instant_bookings, total_bookings,
                   loaded_instant_bookings, locked_booking_ids, locked_bookings,
                   previous_locked_assignments, previous_locked_vehicle_states,
                   new_bookings_since_last_run>>

\* instant_simple: the exception leaves store_locked_assignments while it
\* works on vehicle n + 1; both dictionaries were emptied on entry and hold
\* what the first n vehicles contributed
AbortStore ==
    /\ mode = "simple"
    /\ step_count > 0
    /\ pc = "done"
    /\ locked_booking_ids' = update_locked_bookings(total_bookings, current_sim_time)
    /\ \E n \in 0..(Len(vehicles) - 1) :
          /\ previous_locked_assignments' =
                 StoredAssignments(SubSeq(vehicles, 1, n), locked_booking_ids')
          /\ previous_locked_vehicle_states' =
                 StoredVehicleStates(SubSeq(vehicles, 1, n), locked_booking_ids')
    /\ pc' = "aborted"
    /\ UNCHANGED <<mode, vehicles_data, bookings, vehicles, assignments,
                   unassigned_bookings, caller, idx, assigned_booking_ids,
                   best_vehicle, initial_vehicle_state, pending, additional_assigned,
                   current_sim_time, step_count, scheduled_bookings, instant_bookings,
                   total_bookings, loaded_instant_bookings, locked_bookings, replay,
                   new_bookings_since_last_run>>

\* instant: the exception leaves reassign_unlocked_bookings after the
\* unlocked bookings were taken off the vehicles and before the loop
AbortReassign ==
    /\ mode = "instant"
    /\ pc = "decide"
    /\ new_bookings_since_last_run
    /\ get_unlocked_bookings # <<>>
    /\ vehicles' = [i \in 1..Len(vehicles) |->
                       StripUnlocked(vehicles[i], current_sim_time)]
    /\ pc' = "aborted"
    /\ UNCHANGED <<mode, vehicles_data, bookings, assignments, unassigned_bookings,
                   caller, idx, assigned_booking_ids, best_vehicle,
                   initial_vehicle_state, pending, additional_assigned, sim_vars>>

NextAbort ==
    \/ NextSim
    \/ AbortReplan
    \/ AbortStore
    \/ AbortReassign

SpecAbort == InitSim /\ [][NextAbort]_vars

\* C18: when a replan is aborted by an exception, every booking that was
\* locked and assigned before the replan is still assigned to the same
\* vehicle in the simulator's state: instant_simple's stored locked
\* assignments keep every entry, instant's vehicles keep every locked booking.
C18_AbortKeepsLocked ==
    [][pc' = "aborted" =>
          /\ mode = "simple" =>
                \A b \in DOMAIN previous_locked_assignments :
                    /\ b \in DOMAIN previous_locked_assignments'
                    /\ previous_locked_assignments'[b] = previous_locked_assignments[b]
          /\ mode = "instant" =>
                \A b \in locked_bookings : \A i \in Fleet :
                    Holds(i, b) => InSeq(b, vehicles'[i].assigned_bookings)]_vars

\* a replan was aborted while locked bookings were assigned: in instant a
\* vehicle still carries one, in instant_simple the stored assignments still
\* name a vehicle for one
C18_Witness ==
    /\ pc = "aborted"
    /\ \/ mode = "instant" /\ \E i \in Fleet : \E b \in locked_bookings : Holds(i, b)
       \/ mode = "simple" /\ DOMAIN previous_locked_assignments # {}

----------------------------------------------------------------------------
(* The vehicles after the replay of the locked bookings *)

\* the replay of a replan is over and the residue has not been planned yet
AfterReplay ==
    \/ mode = "simple" /\ pc = "replay" /\ replay = <<>>
    \/ mode = "instant" /\ pc = "loop" /\ caller = "reassign_unlocked_bookings" /\ idx = 1

RECURSIVE CommitAll(_, _)
CommitAll(vehicle, bs) ==
    IF bs = <<>> THEN vehicle
    ELSE CommitAll(assign_booking_to_vehicle(vehicle, Head(bs)), Tail(bs))

\* the vehicle's locked bookings committed in pickup order from the initial state
CommittedInOrder(i) ==
    LET ids == vehicles[i].assigned_bookings
        locked == [k \in 1..Len(ids) |-> FindBooking(KnownBookings, ids[k])]
    IN  CommitAll(VehicleState(vehicles_data[i]), SortedByTime(locked))

\* C19: after the replay and before the residue is planned, every vehicle's
\* route, assigned bookings, active_km, open-form dead_km, position,
\* available_time and total_driver_pay are those obtained by committing its
\* locked bookings in ascending pickup order with assign_booking_to_vehicle
\* from the initial state (at home, 06:00, empty route).
C19_ReplayEqualsCommit ==
    AfterReplay =>
        \A i \in Fleet :
            LET vehicle == vehicles[i]
                expected == CommittedInOrder(i)
            IN  /\ vehicle.route = expected.route
                /\ Range(vehicle.assigned_bookings) = Range(expected.assigned_bookings)
                /\ vehicle.active_km = expected.active_km
                /\ vehicle.dead_km = expected.dead_km
                /\ vehicle.current = expected.current
                /\ vehicle.available_time = expected.available_time
                /\ vehicle.total_driver_pay = expected.total_driver_pay

\* a replay has put two locked bookings back on one vehicle
C19_Witness ==
    /\ AfterReplay
    /\ \E i \in Fleet : Len(vehicles[i].assigned_bookings) >= 2

\* C20: after the replay every vehicle has is_routed = FALSE, so a vehicle
\* that carries locked bookings is still a candidate of the vehicle search.
C20_ReplayLeavesUnrouted ==
    AfterReplay => \A i \in Fleet : ~vehicles[i].is_routed

\* a replay has left a vehicle with locked bookings and the residue is not empty
C20_Witness ==
    /\ AfterReplay
    /\ \E i \in Fleet : vehicles[i].assigned_bookings # <<>>
    /\ \/ mode = "simple" /\ remaining_bookings # <<>>
       \/ mode = "instant" /\ bookings # <<>>

----------------------------------------------------------------------------
(* What a replan plans *)

\* instant booking k was admitted by the admission step of the current tick
AdmittedNow(k) ==
    /\ instant_bookings[k].load_time <= current_sim_time
    /\ \/ instant_bookings[k].load_time > current_sim_time - step_interval
       \/ mode = "simple" /\ step_count = 1

\* the replan of the tick is about to hand its bookings to the planner
ResidueChosen ==
    \/ mode = "instant" /\ pc = "decide"
    \/ mode = "simple" /\ pc = "replay" /\ replay = <<>>

\* C21: an instant booking admitted at a tick is among the bookings planned
\* by the replan of that tick, whatever its pickup time: being inside the
\* lock window does not keep a not yet assigned instant booking out.
C21_AdmittedIsPlanned ==
    [][ResidueChosen =>
          \A k \in 1..Len(instant_bookings) :
              AdmittedNow(k) =>
                  /\ pc' = "loop"
                  /\ InSeq(instant_bookings[k].booking_data, bookings')]_vars

\* a replan has just taken up an instant booking admitted at this tick whose
\* pickup lies inside the lock window
C21_Witness ==
    /\ pc = "loop"
    /\ idx = 1
    /\ mode = "instant" \/ (mode = "simple" /\ step_count > 0)
    /\ \E k \in 1..Len(instant_bookings) :
          /\ AdmittedNow(k)
          /\ InSeq(instant_bookings[k].booking_data, bookings)
          /\ get_pickup_time_minutes(instant_bookings[k].booking_data.pickup_time)
                 <= current_sim_time + lock_window

----------------------------------------------------------------------------
(* Fresh assignments *)

\* the step commits the fresh booking of the current loop pass to a vehicle
FreshAssigned ==
    /\ pc = "loop"
    /\ idx <= Len(ascending_bookings)
    /\ FreshBooking.booking_id \notin assigned_booking_ids
    /\ FreshBooking.booking_id \in assigned_booking_ids'

\* C22: every successful fresh assignment, in the same-class pass and in the
\* upgrade pass, in the batch planner and in the simulators' replan, is
\* followed at once by complete_vehicle_route for the vehicle that received
\* the booking, before the next booking is processed.
C22_FreshThenCompletion ==
    [][FreshAssigned =>
          /\ pc' = "complete"
          /\ idx' = idx
          /\ InSeq(FreshBooking.booking_id, vehicles'[best_vehicle'].assigned_bookings)]_vars

\* the replan of instant has committed a fresh booking and is in the route
\* completion for its vehicle
C22_Witness ==
    /\ mode = "instant"
    /\ caller = "reassign_unlocked_bookings"
    /\ pc = "complete"
    /\ InSeq(FreshBooking.booking_id, vehicles[best_vehicle].assigned_bookings)

----------------------------------------------------------------------------
(* Expanding-ring search *)

RingOf(vehicle, booking) == grid_distance(vehicle.h3_hex, latlng_to_h3(booking.pickup))

\* the vehicles that pass the filters of the search within kmax rings
Qualifying(vs, booking, kmax, skip_routed) ==
    {i \in 1..Len(vs) :
        /\ skip_routed => ~vs[i].is_routed
        /\ vs[i].vehicle_type = booking.vehicle_type
        /\ is_vehicle_available_for_booking(vs[i], booking)
        /\ RingOf(vs[i], booking) <= kmax}

\* result is exactly the qualifying vehicles of the nearest non-empty ring
NearestRingExactly(result, vs, booking, kmax, skip_routed) ==
    LET near == Qualifying(vs, booking, kmax, skip_routed)
    IN  /\ Range(result) \subseteq near
        /\ Len(result) = Cardinality(Range(result))
        /\ \A i \in Range(result) : \A j \in near :
              RingOf(vs[i], booking) <= RingOf(vs[j], booking)
        /\ \A j \in near :
              (\A i \in near : RingOf(vs[j], booking) <= RingOf(vs[i], booking))
                  => j \in Range(result)

\* C23: for every booking, get_suitable_vehicles returns exactly the unrouted
\* vehicles of the booking's class that are time-feasible and lie in the
\* nearest ring k* <= K_max in which such a vehicle exists (K_max = 20 in
\* home_oriented_main, 25 in main1), nothing from a farther ring, and the
\* empty list when there is no such ring.
C23_ExpandingRing ==
    \A k \in 1..Len(bookings) :
        /\ NearestRingExactly(get_suitable_vehicles(vehicles, bookings[k]),
                              vehicles, bookings[k], max_search_radius, TRUE)
        /\ NearestRingExactly(get_suitable_vehicles_main1(vehicles, bookings[k]),
                              vehicles, bookings[k], max_search_radius_main1, FALSE)

\* the search for one booking stops at a ring k* > 0 and leaves out a
\* qualifying vehicle of a farther ring; for another booking the only
\* vehicle is beyond ring 20 and within ring 25
C23_Witness ==
    /\ mode = "batch"
    /\ pc = "loop"
    /\ \E k \in 1..Len(bookings) :
          LET result == get_suitable_vehicles(vehicles, bookings[k])
          IN  /\ result # <<>>
              /\ RingOf(vehicles[result[1]], bookings[k]) > 0
              /\ Qualifying(vehicles, bookings[k], max_search_radius, TRUE)
                     # Range(result)
    /\ \E k \in 1..Len(bookings) :
          /\ get_suitable_vehicles(vehicles, bookings[k]) = <<>>
          /\ get_suitable_vehicles_main1(vehicles, bookings[k]) # <<>>
          /\ \A i \in Fleet : ~vehicles[i].is_routed

----------------------------------------------------------------------------
(* Choice of the vehicle for a fresh booking *)

\* closed-form dead km of the vehicle's route with the booking appended,
\* minus the booked km of the bookings on that route
DeadMinusActive(vehicle, booking) ==
    calculate_ddm(vehicle.route \o <<booking.pickup, booking.drop>>, vehicle.home)
        - (SumBookedKm(vehicle.assigned_bookings, KnownBookings) + booking.distance_km)

\* the same-class pass of process_bookings_home_oriented is at a booking
\* that is not assigned yet
PrimaryPass ==
    /\ InLoop("process_bookings_home_oriented")
    /\ FreshBooking.booking_id \notin assigned_booking_ids

\* C24: when the vehicle search returns candidates for a fresh booking B, B
\* is committed to a candidate that minimises DDM(route || B, home) minus
\* AKM(route || B) over the candidates, the first one in fleet order on ties.
C24_BestCandidate ==
    [][PrimaryPass /\ get_suitable_vehicles(vehicles, FreshBooking) # <<>> =>
          LET cands == Range(get_suitable_vehicles(vehicles, FreshBooking))
              v == best_vehicle'
          IN  /\ pc' = "complete"
              /\ v \in cands
              /\ vehicles'[v] = assign_booking_to_vehicle(vehicles[v], FreshBooking)
              /\ \A c \in cands :
                    /\ DeadMinusActive(vehicles[v], FreshBooking)
                           <= DeadMinusActive(vehicles[c], FreshBooking)
                    /\ DeadMinusActive(vehicles[v], FreshBooking)
                           = DeadMinusActive(vehicles[c], FreshBooking) => v <= c]_vars

\* the search has returned two candidates for the fresh booking, one of them
\* carries a booking already and the second has the smaller difference
C24_Witness ==
    /\ PrimaryPass
    /\ LET cands == get_suitable_vehicles(vehicles, FreshBooking)
       IN  /\ Len(cands) >= 2
           /\ \E c \in Range(cands) : vehicles[c].assigned_bookings # <<>>
           /\ DeadMinusActive(vehicles[cands[2]], FreshBooking)
                  < DeadMinusActive(vehicles[cands[1]], FreshBooking)

----------------------------------------------------------------------------
(* Class upgrade *)

\* C25: a fresh booking of class c < 9 for which no class-c vehicle is a
\* candidate while an unrouted class-(c+1) vehicle is feasible within the
\* search radius is assigned to a class-(c+1) vehicle; a fresh booking goes
\* to a vehicle of another class only after the same-class search returned
\* nothing, only one class up, and a class9 booking is never upgraded.
C25_ClassUpgrade ==
    [][PrimaryPass =>
          LET c == FreshBooking.vehicle_type
              same == get_suitable_vehicles(vehicles, FreshBooking)
              higher == get_suitable_vehicles(vehicles, [FreshBooking EXCEPT !.vehicle_type = c + 1])
              assigned == FreshBooking.booking_id \in assigned_booking_ids'
          IN  /\ same = <<>> /\ c < 9 /\ higher # <<>> =>
                    /\ assigned
                    /\ vehicles'[best_vehicle'].vehicle_type = c + 1
                    /\ InSeq(FreshBooking.booking_id, vehicles'[best_vehicle'].assigned_bookings)
              /\ assigned /\ vehicles'[best_vehicle'].vehicle_type # c =>
                    /\ same = <<>>
                    /\ c < 9
                    /\ vehicles'[best_vehicle'].vehicle_type = c + 1
              /\ same = <<>> /\ c = 9 => ~assigned /\ vehicles' = vehicles]_vars

\* a fresh booking has gone to a vehicle one class up although the fleet
\* has a vehicle of the booking's own class
C25_Witness ==
    /\ mode = "batch"
    /\ pc = "complete"
    /\ vehicles[best_vehicle].vehicle_type = FreshBooking.vehicle_type + 1
    /\ Last(vehicles[best_vehicle].assigned_bookings) = FreshBooking.booking_id
    /\ \E i \in Fleet : vehicles[i].vehicle_type = FreshBooking.vehicle_type

----------------------------------------------------------------------------
(* Route completion on its own                                                *)
(*                                                                            *)
(* complete_vehicle_route is entered for one vehicle that has just received   *)
(* the fresh booking RouteFresh, with a booking table drawn from              *)
(* RouteCatalogue: late bookings whose drops lie 0 to 16 km from the homes,   *)
(* and bookings between the fresh booking and those.                          *)

MaxRoute == 4

RouteFresh == Booking(20, 1, 0, 1, 6, 30, 1, <<10>>)

RouteCatalogue ==
    << Booking(21, 1, 3, 1, 12, 0, 2, <<>>),
       Booking(22, 1, 4, 2, 13, 0, 2, <<>>),
       Booking(23, 1, 5, 2, 11, 0, 3, <<>>),
       Booking(24, 1, 2, 4, 14, 0, 2, <<>>),
       Booking(25, 1, 8, 5, 15, 0, 3, <<>>),
       Booking(26, 1, 4, 6, 16, 0, 2, <<>>),
       Booking(27, 1, 10, 15, 10, 30, 5, <<>>),
       Booking(28, 1, 12, 16, 17, 0, 4, <<>>),
       Booking(29, 1, 1, 3, 8, 0, 2, <<>>),
       Booking(30, 2, 2, 0, 18, 0, 2, <<>>),
       Booking(31, 1, 1, 5, 9, 30, 4, <<5>>),
       Booking(32, 1, 5, 3, 9, 10, 2, <<>>) >>

InitRoute ==
    /\ mode = "batch"
    /\ \E v \in 1..3 : vehicles_data = <<VehicleCatalogue[v]>>
    /\ \E S \in SUBSET (1..Len(RouteCatalogue)) :
          /\ Cardinality(S) <= MaxRoute
          /\ bookings = <<RouteFresh>> \o SubList(RouteCatalogue, S)
    /\ vehicles = <<assign_booking_to_vehicle(VehicleState(vehicles_data[1]), RouteFresh)>>
    /\ assignments = record_assignment(initial_assignments(vehicles_data),
                                       vehicles_data[1], RouteFresh)
    /\ unassigned_bookings = <<>>
    /\ pc = "complete"
    /\ caller = "process_bookings_home_oriented"
    /\ idx = 1
    /\ assigned_booking_ids = {RouteFresh.booking_id}
    /\ best_vehicle = 1
    /\ initial_vehicle_state = NoSnapshot
    /\ pending = <<>>
    /\ additional_assigned = <<>>
    /\ InitSim0

NextRoute ==
    \/ CompleteNoEnding
    \/ CompleteSelect
    \/ CommitPending
    \/ GateReject
    \/ GateAccept

SpecRoute == InitRoute /\ [][NextRoute]_vars

\* the bookings that pass the filters of the ending search for the vehicle
\* whose route is being completed
QualifyingEndings ==
    {k \in 1..Len(bookings) :
        /\ bookings[k].booking_id \notin assigned_booking_ids
        /\ is_vehicle_available_for_booking(vehicles[best_vehicle], bookings[k])
        /\ \/ vehicles[best_vehicle].vehicle_type = bookings[k].vehicle_type
           \/ vehicles[best_vehicle].vehicle_type = bookings[k].vehicle_type + 1
        /\ get_pickup_time_minutes(bookings[k].pickup_time)
               - vehicles[best_vehicle].available_time >= 180}

DropToHome(booking) == get_distance(booking.drop, vehicles[best_vehicle].home)

EndingFound ==
    find_ending_booking(vehicles[best_vehicle], descending_bookings, assigned_booking_ids)

\* C26: among the qualifying bookings, find_ending_booking returns one with
\* drop-to-home distance d <= 5 km whenever there is one; it returns one with
\* 5 < d <= 15 only when none has d <= 5, and then one of minimal d; it
\* returns none when none has d <= 15; when none has d <= 3 the booking
\* returned from the strict phase is one of minimal d.
C26_TwoPhaseEnding ==
    pc = "complete" =>
        LET Q == {bookings[k] : k \in QualifyingEndings}
            r == EndingFound
            d == DropToHome(r)
        IN  /\ r # NoBooking => r \in Q
            /\ (\E q \in Q : DropToHome(q) <= 5 * KmUnit)
                   => r # NoBooking /\ d <= 5 * KmUnit
            /\ r # NoBooking /\ d > 5 * KmUnit =>
                   /\ d <= 15 * KmUnit
                   /\ \A q \in Q : DropToHome(q) > 5 * KmUnit /\ d <= DropToHome(q)
            /\ (\E q \in Q : DropToHome(q) <= 15 * KmUnit) <=> r # NoBooking
            /\ r # NoBooking /\ (\A q \in Q : DropToHome(q) > 3 * KmUnit)
                   => \A q \in Q : d <= DropToHome(q)

\* an ending was taken from the fallback phase, the nearer of two qualifying
\* bookings beyond 5 km, while a third qualifying one lies beyond 15 km
C26_Witness ==
    /\ pc = "commit"
    /\ additional_assigned = <<>>
    /\ LET ending == Last(pending)
       IN  /\ DropToHome(ending) > 5 * KmUnit
           /\ \E k \in 1..Len(bookings) :
                 /\ DropToHome(bookings[k]) > DropToHome(ending)
                 /\ DropToHome(bookings[k]) <= 15 * KmUnit
                 /\ bookings[k].vehicle_type = ending.vehicle_type
           /\ \E k \in 1..Len(bookings) : DropToHome(bookings[k]) > 15 * KmUnit

\* the ending search faces exactly two qualifying bookings, whose drops lie
\* 2 km and 1 km from home: both inside the 3 km band of the immediate exit,
\* as the distances 2.5 km and 1.5 km are (positions are whole kilometres)
TwoExcellentEndings ==
    /\ pc = "complete"
    /\ Cardinality(QualifyingEndings) = 2
    /\ \E j, k \in QualifyingEndings :
          /\ DropToHome(bookings[j]) = 2 * KmUnit
          /\ DropToHome(bookings[k]) = 1 * KmUnit

\* C27: when the ending search has two qualifying candidates, one farther
\* from home and one nearer, both within the 3 km band, the nearer one is
\* chosen, whichever of the two has the later pickup time.
C27_NearerExcellentChosen ==
    TwoExcellentEndings => DropToHome(EndingFound) = 1 * KmUnit

\* the two candidates are present and the farther one has the later pickup,
\* so the descending scan meets it first
C27_Witness ==
    /\ TwoExcellentEndings
    /\ \E j, k \in QualifyingEndings :
          /\ DropToHome(bookings[j]) = 2 * KmUnit
          /\ DropToHome(bookings[k]) = 1 * KmUnit
          /\ get_pickup_time_minutes(bookings[j].pickup_time)
                 > get_pickup_time_minutes(bookings[k].pickup_time)

----------------------------------------------------------------------------
(* The middle bookings of a completed route                                   *)

\* complete_vehicle_route has chosen an ending and its middles, and has not
\* committed any of them yet
SelectionMade == pc = "commit" /\ additional_assigned = <<>>

EndingChosen == Last(pending)

MiddlesChosen == SubSeq(pending, 1, Len(pending) - 1)

\* temp_vehicle_state at the start of round i of the selection
RECURSIVE RollingState(_)
RollingState(i) ==
    IF i = 1
    THEN [current |-> vehicles[best_vehicle].current,
          available_time |-> vehicles[best_vehicle].available_time,
          route |-> vehicles[best_vehicle].route]
    ELSE RollingAfter(RollingState(i - 1), MiddlesChosen[i - 1])

\* dead km, home legs included, of the rolling route of round i followed by
\* booking b and the ending
HypotheticalDeadKm(i, b) ==
    calculate_ddm(RollingState(i).route \o <<b.pickup, b.drop>>
                      \o <<EndingChosen.pickup, EndingChosen.drop>>,
                  vehicles[best_vehicle].home)

\* distance_km of every booking on that hypothetical route
HypotheticalActiveKm(i, b) ==
    SumBookedKm(vehicles[best_vehicle].assigned_bookings, KnownBookings)
        + SumKm(SubSeq(MiddlesChosen, 1, i - 1)) + b.distance_km
        + EndingChosen.distance_km

\* the candidates still open in round i that pass both time checks
TimelyCandidates(i) ==
    {b \in Range(MiddleCandidates(vehicles[best_vehicle], EndingChosen,
                                  available_bookings, assigned_booking_ids)) :
        /\ \A j \in 1..(i - 1) : MiddlesChosen[j] # b
        /\ MiddleTimeOk(RollingState(i), EndingChosen, b)}

\* C28: every middle booking chosen by find_middle_bookings had, in its round,
\* dead km of the hypothetical route (rolling route, the booking, the ending,
\* both home legs) not above the total distance_km of the bookings on that
\* route, and its dead km minus active km was minimal among the candidates of
\* the round that pass the time checks.
C28_MiddleNeverDeadHeavy ==
    SelectionMade =>
        \A i \in 1..Len(MiddlesChosen) :
            LET B == MiddlesChosen[i]
            IN  /\ B \in TimelyCandidates(i)
                /\ HypotheticalDeadKm(i, B) <= HypotheticalActiveKm(i, B)
                /\ \A c \in TimelyCandidates(i) :
                       HypotheticalDeadKm(i, B) - HypotheticalActiveKm(i, B)
                           <= HypotheticalDeadKm(i, c) - HypotheticalActiveKm(i, c)

\* a middle was chosen in a round in which another timely candidate was
\* refused because its dead km exceed the active km
C28_Witness ==
    /\ SelectionMade
    /\ \E i \in 1..Len(MiddlesChosen) :
          \E c \in TimelyCandidates(i) :
              HypotheticalDeadKm(i, c) > HypotheticalActiveKm(i, c)

\* C29: the middle bookings are chosen in non-decreasing order of pickup time,
\* and none is picked up after the ending.
C29_MiddlesInTimeOrder ==
    SelectionMade =>
        \A i, j \in 1..Len(pending) :
            i < j => get_pickup_time_minutes(pending[i].pickup_time)
                         <= get_pickup_time_minutes(pending[j].pickup_time)

\* a middle with the later pickup time was chosen in an earlier round than a
\* middle with the earlier pickup time
C29_Witness ==
    /\ SelectionMade
    /\ \E i, j \in 1..Len(MiddlesChosen) :
          /\ i < j
          /\ get_pickup_time_minutes(MiddlesChosen[i].pickup_time)
                 > get_pickup_time_minutes(MiddlesChosen[j].pickup_time)

----------------------------------------------------------------------------
(* The clock of a vehicle after a completion that failed                      *)

\* complete_vehicle_route returns empty: no ending was found, or the gate
\* rejected the route
FailedCompletion ==
    \/ pc = "complete" /\ pc' = "loop"
    \/ pc = "gate" /\ pc' = "loop" /\ ~vehicles'[best_vehicle].is_routed

\* available_time as the commit of the fresh booking left it
FreshFinish ==
    IF pc = "gate" THEN initial_vehicle_state.available_time
    ELSE vehicles[best_vehicle].available_time

\* C30: after a failed route completion for a vehicle whose fresh booking was
\* just committed, the vehicle's available_time is the finish of the fresh
\* booking as the commit computed it: max(arrival, pickup) + travel_time + 30.
C30_ClockAfterFailedCompletion ==
    [][FailedCompletion => vehicles'[best_vehicle].available_time = FreshFinish]_vars

\* the completion is about to fail for a vehicle that reached the pickup of
\* its fresh booking after the pickup time
C30_Witness ==
    /\ pc = "complete"
    /\ caller = "process_bookings_home_oriented"
    /\ EndingFound = NoBooking
    /\ FreshBooking.travel_time # <<>>
    /\ vehicles[best_vehicle].available_time
           > get_pickup_time_minutes(FreshBooking.pickup_time)
                 + get_travel_time(FreshBooking, 0) + service_time

----------------------------------------------------------------------------
(* Who writes the state of a vehicle                                          *)

MutableFields(vehicle) ==
    <<vehicle.route, vehicle.assigned_bookings, vehicle.current, vehicle.h3_hex,
      vehicle.available_time, vehicle.active_km, vehicle.dead_km,
      vehicle.total_driver_pay>>

\* the step leaves vehicle i as assign_booking_to_vehicle leaves it for one
\* of the bookings of the run
WrittenByCommit(i) ==
    \E k \in 1..Len(bookings) :
        MutableFields(vehicles'[i])
            = MutableFields(assign_booking_to_vehicle(vehicles[i], bookings[k]))

\* C31: during planning the mutable fields of a vehicle (route,
\* assigned_bookings, position, hex, available_time, active_km, dead_km,
\* total_driver_pay) change only by assign_booking_to_vehicle.
C31_OnlyCommitWrites ==
    [][\A i \in 1..Len(vehicles) :
          (Len(vehicles') = Len(vehicles)
              /\ MutableFields(vehicles'[i]) # MutableFields(vehicles[i]))
          => WrittenByCommit(i)]_vars

\* the gate is about to reject a route whose bookings were committed: the
\* rollback will write the vehicle
C31_Witness ==
    /\ pc = "gate"
    /\ GateRejects(vehicles[best_vehicle])
    /\ additional_assigned # <<>>

----------------------------------------------------------------------------
(* Routed vehicles                                                            *)

\* C32: within one run of the planner, is_routed becomes true only when the
\* completion step accepts a route or in the end-of-run finalization, and the
\* assigned_bookings and route of a routed vehicle never change again.
C32_RoutedIsFinal ==
    [][\A i \in 1..Len(vehicles) :
          /\ (~vehicles[i].is_routed /\ vehicles'[i].is_routed)
                 => \/ pc = "gate" /\ i = best_vehicle /\ pc' = "loop"
                    \/ pc = "loop" /\ idx > Len(ascending_bookings) /\ pc' = "done"
          /\ vehicles[i].is_routed
                 => /\ vehicles'[i].is_routed
                    /\ vehicles'[i].assigned_bookings = vehicles[i].assigned_bookings
                    /\ vehicles'[i].route = vehicles[i].route]_vars

\* a fresh booking is being placed while a routed vehicle of its class could
\* reach it in time
C32_Witness ==
    /\ PrimaryPass
    /\ \E i \in 1..Len(vehicles) :
          /\ vehicles[i].is_routed
          /\ vehicles[i].vehicle_type = FreshBooking.vehicle_type
          /\ is_vehicle_available_for_booking(vehicles[i], FreshBooking)

----------------------------------------------------------------------------
(* Load times of the instant bookings                                         *)

LoadWindowOk(ib) ==
    LET p == get_pickup_time_minutes(ib.booking_data.pickup_time)
        lo == Max(360, p - 120)
    IN  /\ ib.load_time >= lo
        /\ p - 60 >= lo => ib.load_time <= p - 60
        /\ p - 60 < lo => ib.load_time = lo

\* C33: for an instant booking with pickup minute p the load_time L satisfies
\* L >= max(360, p - 120), L <= p - 60 when p - 60 >= max(360, p - 120), and
\* L = max(360, p - 120) otherwise; the load times never change during a run.
C33_LoadTimeWindow ==
    /\ [](\A k \in 1..Len(instant_bookings) : LoadWindowOk(instant_bookings[k]))
    /\ [][instant_bookings' = instant_bookings]_vars

\* the run has passed its first tick with an instant booking whose pickup is
\* less than 60 minutes after the start, so that its window is empty
C33_Witness ==
    /\ step_count >= 1
    /\ \E k \in 1..Len(instant_bookings) :
          /\ get_pickup_time_minutes(instant_bookings[k].booking_data.pickup_time) - 60 < 360
          /\ instant_bookings[k].load_time = 360

----------------------------------------------------------------------------
(* The tick loop                                                              *)

ConfiguredEnd == IF mode = "simple" THEN end_time_simple ELSE end_time_instant

\* run_simulation has left its loop and made its last planning run
SimulationOver ==
    \/ mode = "simple" /\ pc = "summary" /\ ~(current_sim_time < stop_time_simple)
    \/ mode = "instant" /\ pc = "tick" /\ ~(current_sim_time < end_time_instant)

\* C34: the simulated clock starts at 360, never decreases and moves by
\* exactly 30 minutes at a time, and the loop stops only after the last tick
\* below the configured end: no tick below the end is skipped.
C34_EveryTickUntilEnd ==
    /\ [](mode \in {"simple", "instant"} /\ step_count >= 1 => current_sim_time >= 360)
    /\ [][current_sim_time >= 360 /\ current_sim_time' # current_sim_time
             => current_sim_time' = current_sim_time + 30]_vars
    /\ [](SimulationOver => current_sim_time >= ConfiguredEnd)

\* a run of instant_simple has left its loop
C34_Witness ==
    /\ SimulationOver
    /\ mode = "simple"
    /\ step_count >= 2

----------------------------------------------------------------------------
(* Report metrics (calculate_final_metrics) of the two batch assigners        *)
(*                                                                            *)
(* main1.py is the heuristic assigner without route completion: it takes the  *)
(* bookings in input order and commits each to the best suitable vehicle.     *)
(* Both assigners report through calculate_final_metrics, which is called     *)
(* here twice in a row on the state the planner left.                         *)

customer_price_per_km == <<20, 24, 28, 32, 40, 50, 60, 70, 80>>

\* dead_km_percentage, in percent
dead_km_percentage == <<40, 40, 40, 40, 40, 30, 30, 25, 25>>

\* customer fare of one vehicle, in hundredths of the unit of the pay fields
RECURSIVE VehicleCustomerFare(_, _, _)
VehicleCustomerFare(vehicle, ids, all_bookings) ==
    IF ids = <<>> THEN 0
    ELSE LET booking == FindBooking(all_bookings, Head(ids))
             active_distance == booking.distance_km
             booking_fare == active_distance
                                 * (100 + dead_km_percentage[vehicle.vehicle_type])
                                 * customer_price_per_km[vehicle.vehicle_type]
         IN  (IF booking # NoBooking THEN booking_fare ELSE 0)
             + VehicleCustomerFare(vehicle, Tail(ids), all_bookings)

\* the totals over the vehicles that carry bookings; overall_efficiency is a
\* function of total_active_km and total_dead_km
RECURSIVE MetricsOver(_, _, _)
MetricsOver(vs, all_bookings, unassigned) ==
    IF vs = <<>>
    THEN [total_profit |-> 0, total_customer_fare |-> 0, total_driver_pay |-> 0,
          total_active_km |-> 0, total_dead_km |-> 0, assigned_bookings |-> 0,
          unassigned_bookings |-> Len(unassigned)]
    ELSE LET vehicle == Head(vs)
             rest == MetricsOver(Tail(vs), all_bookings, unassigned)
             fare == VehicleCustomerFare(vehicle, vehicle.assigned_bookings, all_bookings)
         IN  IF vehicle.assigned_bookings = <<>> THEN rest
             ELSE [total_profit |-> rest.total_profit + fare
                                        - 100 * vehicle.total_driver_pay,
                   total_customer_fare |-> rest.total_customer_fare + fare,
                   total_driver_pay |-> rest.total_driver_pay + vehicle.total_driver_pay,
                   total_active_km |-> rest.total_active_km + vehicle.active_km,
                   total_dead_km |-> rest.total_dead_km + vehicle.dead_km,
                   assigned_bookings |-> rest.assigned_bookings
                                             + Len(vehicle.assigned_bookings),
                   unassigned_bookings |-> rest.unassigned_bookings]

\* main1.py adds the leg home to every vehicle with bookings before it sums
AddHomeLegMain1(vehicle) ==
    IF vehicle.assigned_bookings = <<>> THEN vehicle
    ELSE LET final_dead_km == get_distance(vehicle.current, vehicle.home)
         IN  [vehicle EXCEPT
                 !.dead_km = @ + final_dead_km,
                 !.total_driver_pay = @ + final_dead_km * dead_driver_pay[vehicle.vehicle_type]]

\* the vehicles as a call of calculate_final_metrics leaves them
VehiclesAfterMetrics(vs) ==
    IF mode = "main1" THEN [i \in 1..Len(vs) |-> AddHomeLegMain1(vs[i])] ELSE vs

\* the dictionary a call of calculate_final_metrics returns on vehicles vs
calculate_final_metrics(vs) ==
    MetricsOver(VehiclesAfterMetrics(vs), bookings, unassigned_bookings)

InitMain1 ==
    /\ mode = "main1"
    /\ \E S \in VehicleChoices : vehicles_data = VehicleSubList(S)
    /\ \E S \in BookingChoices(MaxBookings) : bookings = SubList(BookingCatalogue, S)
    /\ vehicles = initialize_vehicles(vehicles_data)
    /\ assignments = initial_assignments(vehicles_data)
    /\ unassigned_bookings = <<>>
    /\ pc = "main1"
    /\ caller = "process_bookings"
    /\ idx = 1
    /\ assigned_booking_ids = {}
    /\ best_vehicle = 0
    /\ initial_vehicle_state = NoSnapshot
    /\ pending = <<>>
    /\ additional_assigned = <<>>
    /\ InitSim0

Main1Commit(v) ==
    /\ vehicles' = [vehicles EXCEPT ![v] = assign_booking_to_vehicle(@, bookings[idx])]
    /\ assignments' = record_assignment(assignments, vehicles[v], bookings[idx])
    /\ assigned_booking_ids' = assigned_booking_ids \cup {bookings[idx].booking_id}
    /\ best_vehicle' = v
    /\ idx' = idx + 1
    /\ UNCHANGED <<bookings, unassigned_bookings, pc, caller, initial_vehicle_state,
                   pending, additional_assigned>>
    /\ NoSimStep

Main1Assign ==
    /\ pc = "main1"
    /\ idx <= Len(bookings)
    /\ LET suitable_vehicles == get_suitable_vehicles_main1(vehicles, bookings[idx])
       IN  /\ suitable_vehicles # <<>>
           /\ Main1Commit(SelectBestVehicle(vehicles, suitable_vehicles, bookings[idx],
                                            bookings, 0, Inf))

Main1AssignUpgrade ==
    /\ pc = "main1"
    /\ idx <= Len(bookings)
    /\ get_suitable_vehicles_main1(vehicles, bookings[idx]) = <<>>
    /\ bookings[idx].vehicle_type < 9
    /\ LET higher_class_vehicles ==
               get_suitable_vehicles_main1(vehicles, HigherClassBooking(bookings[idx]))
       IN  /\ higher_class_vehicles # <<>>
           /\ Main1Commit(SelectBestVehicle(vehicles, higher_class_vehicles,
                                            bookings[idx], bookings, 0, Inf))

Main1NotAssigned ==
    /\ pc = "main1"
    /\ idx <= Len(bookings)
    /\ get_suitable_vehicles_main1(vehicles, bookings[idx]) = <<>>
    /\ bookings[idx].vehicle_type < 9
          => get_suitable_vehicles_main1(vehicles, HigherClassBooking(bookings[idx])) = <<>>
    /\ unassigned_bookings' = Append(unassigned_bookings, bookings[idx])
    /\ idx' = idx + 1
    /\ UNCHANGED <<bookings, vehicles, assignments, pc, caller, assigned_booking_ids,
                   best_vehicle, initial_vehicle_state, pending, additional_assigned>>
    /\ NoSimStep

Main1Return ==
    /\ pc = "main1"
    /\ idx > Len(bookings)
    /\ pc' = "done"
    /\ UNCHANGED <<bookings, vehicles, assignments, unassigned_bookings, caller, idx,
                   assigned_booking_ids, best_vehicle, initial_vehicle_state, pending,
                   additional_assigned>>
    /\ NoSimStep

\* one call of calculate_final_metrics after the planner has returned; a
\* second call follows the first
CalculateFinalMetrics ==
    /\ mode \in {"batch", "main1"}
    /\ pc \in {"done", "reported"}
    /\ vehicles' = VehiclesAfterMetrics(vehicles)
    /\ pc' = IF pc = "done" THEN "reported" ELSE "reported_twice"
    /\ UNCHANGED <<bookings, assignments, unassigned_bookings, caller, idx,
                   assigned_booking_ids, best_vehicle, initial_vehicle_state, pending,
                   additional_assigned>>
    /\ NoSimStep

InitReport == Init \/ InitMain1

NextReport ==
    \/ Next
    \/ Main1Assign
    \/ Main1AssignUpgrade
    \/ Main1NotAssigned
    \/ Main1Return
    \/ CalculateFinalMetrics

SpecReport == InitReport /\ [][NextReport]_vars

MetricsCall == pc \in {"done", "reported"} /\ pc' \in {"reported", "reported_twice"}

\* C35: calculate_final_metrics changes no field of any vehicle, so that a
\* second call on the state the first call left returns the same metrics.
C35_MetricsArePure ==
    [][MetricsCall => /\ vehicles' = vehicles
                      /\ calculate_final_metrics(vehicles')
                             = calculate_final_metrics(vehicles)]_vars

\* the metrics have been computed twice for a fleet of which a vehicle ended
\* its route away from home
C35_Witness ==
    /\ pc = "reported_twice"
    /\ \E i \in 1..Len(vehicles) :
          /\ vehicles[i].assigned_bookings # <<>>
          /\ vehicles[i].current # vehicles[i].home

----------------------------------------------------------------------------
(* The assignments map                                                        *)

\* C36: assignments[V.vehicle_id] equals V.assigned_bookings for every
\* vehicle V after every commit, rollback and planner return, and no booking
\* id stands under two vehicles in the map.
C36_AssignmentsMatchVehicles ==
    /\ \A i \in 1..Len(vehicles) :
          assignments[vehicles[i].vehicle_id] = vehicles[i].assigned_bookings
    /\ \A v, w \in DOMAIN assignments :
          v # w => Range(assignments[v]) \cap Range(assignments[w]) = {}

\* a route completion has just been rejected and rolled back
C36_Witness ==
    /\ pc = "loop"
    /\ best_vehicle \in 1..Len(vehicles)
    /\ additional_assigned # <<>>
    /\ ~vehicles[best_vehicle].is_routed
    /\ \A k \in 1..Len(additional_assigned) :
          ~InSeq(additional_assigned[k], vehicles[best_vehicle].assigned_bookings)

----------------------------------------------------------------------------
(* Driver pay                                                                 *)

\* C37: in the batch planner every vehicle's total_driver_pay equals its
\* active pay rate times active_km plus its dead pay rate times dead_km,
\* after every commit, rollback, accepted completion and finalization.
C37_PayMatchesKm ==
    \A i \in 1..Len(vehicles) :
        vehicles[i].total_driver_pay
            = active_driver_pay[vehicles[i].vehicle_type] * vehicles[i].active_km
              + dead_driver_pay[vehicles[i].vehicle_type] * vehicles[i].dead_km

\* the planner has returned with a vehicle that carries several bookings and
\* ends away from home, and a vehicle finalized with a single booking
C37_Witness ==
    /\ pc = "done"
    /\ \E i \in 1..Len(vehicles) :
          /\ Len(vehicles[i].assigned_bookings) >= 2
          /\ vehicles[i].current # vehicles[i].home
          /\ vehicles[i].dead_km > 0
    /\ \E i \in 1..Len(vehicles) : Len(vehicles[i].assigned_bookings) = 1

----------------------------------------------------------------------------
(* Position and route                                                         *)

\* C38: the current position of every vehicle is the drop point of the last
\* booking of its route, or its home when the route is empty, in every state
\* of the planner and of the simulators.
C38_PositionMatchesRoute ==
    \A i \in 1..Len(vehicles) :
        vehicles[i].current = IF vehicles[i].route = <<>> THEN vehicles[i].home
                              ELSE Last(vehicles[i].route)

\* a replan of instant.py is about to strip an unlocked booking from a
\* vehicle and to rebuild the route of the vehicle from its locked bookings
C38_Witness ==
    /\ mode = "instant"
    /\ pc = "decide"
    /\ new_bookings_since_last_run
    /\ \E i \in 1..Len(vehicles) :
          \E k \in 1..Len(vehicles[i].assigned_bookings) :
              vehicles[i].assigned_bookings[k] \notin locked_bookings

----------------------------------------------------------------------------
(* No active booking is lost *)

\* the end of a tick: instant_simple has stored the locked assignments, instant
\* has installed the replan (or skipped it) and advanced the clock
EndOfTick ==
    \/ mode = "simple" /\ pc = "summary" /\ step_count >= 1
    \/ mode = "instant" /\ pc = "tick" /\ current_sim_time > start_time

\* the number of places that account for booking b: the vehicles that hold it
\* and the unassigned list of the assigner
PlacesOf(b) ==
    Cardinality({i \in Fleet : Holds(i, b)})
        + (IF b \in IdsOf(unassigned_bookings) THEN 1 ELSE 0)

LockedNow ==
    IF mode = "simple" THEN DOMAIN previous_locked_assignments ELSE locked_bookings

\* C39: at the end of every tick every active booking is in exactly one
\* vehicle's assigned_bookings or in the assigner's unassigned list, never both
\* and never neither; and a replan takes up every active booking that is
\* unlocked and on no vehicle, so one that an earlier replan failed to place is
\* considered again.
C39_NoBookingLost ==
    /\ [](EndOfTick => \A k \in 1..Len(ActiveIds) : PlacesOf(ActiveIds[k]) = 1)
    /\ [][(ResidueChosen /\ pc' = "loop") =>
             \A k \in 1..Len(ActiveSet) :
                 (/\ ActiveSet[k].booking_id \notin LockedNow
                  /\ \A i \in Fleet : ~Holds(i, ActiveSet[k].booking_id))
                     => InSeq(ActiveSet[k], bookings')]_vars

\* the end of a tick of instant whose replan took a scheduled booking off its
\* vehicle and could not place it again
C39_Witness ==
    /\ mode = "instant"
    /\ pc = "tick"
    /\ current_sim_time > start_time
    /\ \E k \in 1..Len(scheduled_bookings) :
          /\ InSeq(scheduled_bookings[k], bookings)
          /\ PlacesOf(scheduled_bookings[k].booking_id) = 0

----------------------------------------------------------------------------
(* The rolling state of the selection against the real commits *)

\* every chosen middle booking has been committed, the ending not yet
MiddlesCommitted ==
    /\ pc = "commit"
    /\ Len(pending) = 1
    /\ additional_assigned # <<>>

\* temp_vehicle_state after the selection served the bookings ids in order
RECURSIVE RollingOver(_, _)
RollingOver(temp, ids) ==
    IF ids = <<>> THEN temp
    ELSE RollingOver(RollingAfter(temp, FindBooking(bookings, Head(ids))), Tail(ids))

\* temp_vehicle_state after the last selection: it started from the vehicle as
\* complete_vehicle_route found it
RollingAtEnd ==
    RollingOver([current |-> initial_vehicle_state.current,
                 available_time |-> initial_vehicle_state.available_time,
                 route |-> initial_vehicle_state.route],
                additional_assigned)

\* C40: after complete_vehicle_route has committed the chosen middle bookings
\* in order, the vehicle's position, route and available_time equal the rolling
\* position, route and available_time of find_middle_bookings after its last
\* selection, also when a booking carries no travel_time.
C40_RollingMatchesCommits ==
    MiddlesCommitted =>
        /\ vehicles[best_vehicle].current = RollingAtEnd.current
        /\ vehicles[best_vehicle].route = RollingAtEnd.route
        /\ vehicles[best_vehicle].available_time = RollingAtEnd.available_time

\* a middle booking without a travel_time field has been committed
C40_Witness ==
    /\ MiddlesCommitted
    /\ \E k \in 1..Len(additional_assigned) :
          FindBooking(bookings, additional_assigned[k]).travel_time = <<>>

====
